---- MODULE Spec2Model ----
(***************************************************************************)
(* Model of quantmind's indexed local store (quantmind/storage).           *)
(*                                                                         *)
(* The file system is part of the state: raw_files/, knowledges/,          *)
(* embeddings/ and extra/ under the storage root.  File names are          *)
(* sequences of tokens in which "." is a token of its own, so that         *)
(* f"{file_id}{ext}", Path.stem, Path.suffix and glob patterns are         *)
(* computed on names as the code computes them on strings.                 *)
(***************************************************************************)
EXTENDS Naturals, Sequences, FiniteSets, TLC

VARIABLES
    up,                 \* a LocalStorage object is alive in the process
    raw_files_dir,      \* raw_files/: entries [name, data] in listing order
    knowledges_dir,     \* knowledges/: file name -> content
    embeddings_dir,     \* embeddings/: file name -> content
    extra_dir,          \* extra/: file name -> content (holds the index files)
    raw_files_index,    \* self._raw_files_index
    knowledges_index,   \* self._knowledges_index
    embeddings_index,   \* self._embeddings_index
    last,               \* the last step: operation, arguments, result, branch
    threads,            \* threads inside a write operation: position and locals
    download_timeout,   \* config.download_timeout
    requests,           \* the requests.get calls issued so far
    llm                 \* an LLM block: its config, its provider, its last call

\* the state of the store
store_vars == <<up, raw_files_dir, knowledges_dir, embeddings_dir, extra_dir,
                raw_files_index, knowledges_index, embeddings_index, last>>

\* the state the operations of LocalStorage itself leave alone
others == <<threads, download_timeout, requests, llm>>

vars == <<store_vars, others>>

-----------------------------------------------------------------------------
(* Bounds of the model: the inputs the operations are called with.         *)

\* number of distinct byte strings written as raw content
NumContents == 2

Dot == "."

\* file IDs of raw files
FileIds == {<<"a">>}

\* file_extension arguments of store_raw_file(content=...)
FileExtensions == {<<>>, <<"t">>, <<Dot, "t">>}

\* byte strings
Contents == 1..NumContents

\* files outside the store that store_raw_file(file_path=...) copies from;
\* exists = FALSE is a path that names no file
SourceFiles ==
    {[name |-> <<"s", Dot, "t">>, exists |-> TRUE, data |-> 1],
     [name |-> <<"m", Dot, "t">>, exists |-> FALSE, data |-> 1]}

\* primary IDs of knowledge items, also used as embedding keys
KnowledgeIds == {<<"k">>}

Titles == {"T1", "T2"}

\* embedding vectors
Vectors == {"v1"}

IndexTypes == {"raw_files", "knowledges", "embeddings"}

-----------------------------------------------------------------------------
(* Values                                                                  *)

None == [kind |-> "None"]
Raise(exc) == [kind |-> "raise", exc |-> exc]
PathRet(p) == [kind |-> "path", path |-> p]
BoolRet(b) == [kind |-> "bool", val |-> b]
IdRet(i) == [kind |-> "id", id |-> i]
ItemRet(k) == [kind |-> "item", item |-> k]
DataRet(d) == [data |-> d, kind |-> "data"]

\* file contents
Bytes(b) == [data |-> b, kind |-> "bytes"]
Json(d) == [data |-> d, kind |-> "json"]
\* the contents store_raw_file is given
FileContents == {Bytes(b) : b \in Contents}
\* what open(path, "w") followed by an incomplete write leaves behind
Partial == [kind |-> "partial"]
\* an index file damaged outside the program
Corrupt == [kind |-> "corrupt"]

EmptyMap == <<>>

Remove(f, k) == [x \in (DOMAIN f) \ {k} |-> f[x]]
Put(f, k, v) == (k :> v) @@ f

SetMax(S) == CHOOSE m \in S : \A x \in S : x <= m

-----------------------------------------------------------------------------
(* pathlib and glob on names                                               *)

\* str.rfind("."), 1-based, 0 when there is no dot
RFindDot(name) ==
    LET D == {i \in 1..Len(name) : name[i] = Dot}
    IN IF D = {} THEN 0 ELSE SetMax(D)

\* PurePath.suffix: the last dot and what follows it, unless the dot is the
\* first or the last character of the name
suffix(name) ==
    LET j == RFindDot(name)
    IN IF 1 < j /\ j < Len(name) THEN SubSeq(name, j, Len(name)) ELSE <<>>

\* PurePath.stem: everything before the suffix
stem(name) ==
    LET j == RFindDot(name)
    IN IF 1 < j /\ j < Len(name) THEN SubSeq(name, 1, j - 1) ELSE name

\* the pattern without ".*": only a file named exactly file_id matches
glob_id_exact(name, file_id) == name = file_id

\* fnmatch of name against f"{file_id}.*"
glob_id_dot_star(name, file_id) ==
    /\ Len(name) >= Len(file_id) + 1
    /\ SubSeq(name, 1, Len(file_id)) = file_id
    /\ name[Len(file_id) + 1] = Dot

\* fnmatch of name against "*.json"
glob_star_json(name) ==
    /\ Len(name) >= 2
    /\ SubSeq(name, Len(name) - 1, Len(name)) = <<Dot, "json">>

\* a path relative to the storage root
RelPath(dir, name) == [dir |-> dir, name |-> name]

\* f"{knowledge_id}.json"
json_name(id) == id \o <<Dot, "json">>

-----------------------------------------------------------------------------
(* Directories                                                             *)

\* raw_files/ keeps its listing order: iterdir() and glob() yield the entries
\* in the order the file system lists them, which stays the same while the
\* directory is not changed and is arbitrary for a newly created file.
RawNames == {raw_files_dir[i].name : i \in DOMAIN raw_files_dir}
RawPos(name) == CHOOSE i \in DOMAIN raw_files_dir : raw_files_dir[i].name = name
RawRead(name) == raw_files_dir[RawPos(name)].data

InsertAt(s, pos, e) == SubSeq(s, 1, pos - 1) \o <<e>> \o SubSeq(s, pos, Len(s))

\* open(target, "wb") + write, or shutil.copy2: an existing file keeps its
\* place in the listing, a new one appears at position pos
RawWrite(dir, name, data, pos) ==
    IF \E i \in DOMAIN dir : dir[i].name = name
    THEN [i \in DOMAIN dir |->
              IF dir[i].name = name THEN [name |-> name, data |-> data] ELSE dir[i]]
    ELSE InsertAt(dir, pos, [name |-> name, data |-> data])

RawPositions(name) ==
    IF name \in RawNames THEN {RawPos(name)} ELSE 1..(Len(raw_files_dir) + 1)

RawUnlink(dir, name) == SelectSeq(dir, LAMBDA e : e.name # name)

\* Path.exists() of storage_dir / relative_path
path_exists(p) ==
    CASE p.dir = "raw_files" -> p.name \in RawNames
      [] p.dir = "knowledges" -> p.name \in DOMAIN knowledges_dir
      [] p.dir = "embeddings" -> p.name \in DOMAIN embeddings_dir
      [] OTHER -> FALSE

-----------------------------------------------------------------------------
(* Index files                                                             *)

\* _get_index_path: extra/{index_type}_index.json
get_index_path(index_type) == <<index_type, "_index", Dot, "json">>

save_index_not_written(extra, index_type, index_data) == extra

\* _save_index: open(index_path, "w") and json.dump of the in-memory index
save_index(extra, index_type, index_data) ==
    Put(extra, get_index_path(index_type), Json(index_data))

update_index_if_absent(index, id, entry) ==
    IF id \in DOMAIN index THEN index ELSE Put(index, id, entry)

\* self._x_index[id] = {...} in a store: the entry replaces any earlier one
update_index(index, id, entry) == Put(index, id, entry)

prune_entry_kept(index, id) == index

\* del self._x_index[id] when the indexed file is missing on disk
prune_entry(index, id) == Remove(index, id)

-----------------------------------------------------------------------------
(* Rebuilding an index by scanning its directory                           *)

RECURSIVE scan_raw_files(_, _)
\* _rebuild_index("raw_files"): one entry per file_path.stem, in iterdir()
\* order, a later file with the same stem replacing the earlier entry
scan_raw_files(dir, acc) ==
    IF dir = <<>> THEN acc
    ELSE scan_raw_files(
             Tail(dir),
             Put(acc, stem(Head(dir).name),
                 [path |-> RelPath("raw_files", Head(dir).name),
                  extension |-> suffix(Head(dir).name)]))

\* _rebuild_index("knowledges" | "embeddings"): one entry per *.json file
scan_json_dir(dirname, dir) ==
    LET J == {n \in DOMAIN dir : glob_star_json(n)}
    IN [k \in {stem(n) : n \in J} |->
            [path |-> RelPath(dirname, CHOOSE n \in J : stem(n) = k)]]

\* a rebuild that indexes only the files no entry points to yet
rebuilt_index_only_unindexed(index_type) ==
    CASE index_type = "raw_files" ->
             scan_raw_files(
                 SelectSeq(raw_files_dir,
                           LAMBDA e : \A k \in DOMAIN raw_files_index :
                                          raw_files_index[k].path.name # e.name),
                 EmptyMap)
      [] index_type = "knowledges" ->
             scan_json_dir("knowledges",
                 [n \in {m \in DOMAIN knowledges_dir :
                            \A k \in DOMAIN knowledges_index :
                                knowledges_index[k].path.name # m}
                    |-> knowledges_dir[n]])
      [] index_type = "embeddings" ->
             scan_json_dir("embeddings",
                 [n \in {m \in DOMAIN embeddings_dir :
                            \A k \in DOMAIN embeddings_index :
                                embeddings_index[k].path.name # m}
                    |-> embeddings_dir[n]])

\* the index _rebuild_index(index_type) leaves in memory: cleared, then filled
\* from the directory as it is now
rebuilt_index(index_type) ==
    CASE index_type = "raw_files" -> scan_raw_files(raw_files_dir, EmptyMap)
      [] index_type = "knowledges" -> scan_json_dir("knowledges", knowledges_dir)
      [] index_type = "embeddings" -> scan_json_dir("embeddings", embeddings_dir)

\* a load that starts from an empty index when the file is missing or unreadable
load_index_no_rebuild(index_type) ==
    LET p == get_index_path(index_type)
    IN IF p \in DOMAIN extra_dir /\ extra_dir[p].kind = "json"
       THEN [index |-> extra_dir[p].data, rebuilt |-> FALSE]
       ELSE [index |-> EmptyMap, rebuilt |-> FALSE]

\* _load_index: the index file's content when it exists and parses, else the
\* rebuilt index; rebuilt is TRUE when _rebuild_index ran (and saved)
load_index(index_type) ==
    LET p == get_index_path(index_type)
    IN IF p \in DOMAIN extra_dir /\ extra_dir[p].kind = "json"
       THEN [index |-> extra_dir[p].data, rebuilt |-> FALSE]
       ELSE [index |-> rebuilt_index(index_type), rebuilt |-> TRUE]

\* the extra/ directory after _load_index(index_type) starting from extra
extra_after_load(extra, index_type) ==
    IF load_index(index_type).rebuilt
    THEN save_index(extra, index_type, load_index(index_type).index)
    ELSE extra

NoArg == [kind |-> "None"]

\* rebuilt: the indexes the step rebuilt by scan while loading
Last(op, id, arg, ret, note) ==
    [op |-> op, id |-> id, arg |-> arg, ret |-> ret, note |-> note,
     rebuilt |-> {}]

\* LocalStorage.__init__: the directories exist, the three indexes start empty
\* and _load_indexes loads raw_files, knowledges, embeddings in that order
LocalStorage_init ==
    /\ raw_files_index' = load_index("raw_files").index
    /\ knowledges_index' = load_index("knowledges").index
    /\ embeddings_index' = load_index("embeddings").index
    /\ extra_dir' = extra_after_load(
                        extra_after_load(
                            extra_after_load(extra_dir, "raw_files"),
                            "knowledges"),
                        "embeddings")
    /\ up' = TRUE
    /\ last' = [Last("__init__", <<>>, NoArg, None, "loaded")
                    EXCEPT !.rebuilt =
                        {t \in IndexTypes : load_index(t).rebuilt}]
    /\ UNCHANGED <<others, raw_files_dir, knowledges_dir, embeddings_dir>>

\* rebuild_all_indexes: _rebuild_index on each index, each followed by its save
rebuild_all_indexes ==
    /\ up
    /\ raw_files_index' = rebuilt_index("raw_files")
    /\ knowledges_index' = rebuilt_index("knowledges")
    /\ embeddings_index' = rebuilt_index("embeddings")
    /\ extra_dir' = save_index(
                        save_index(
                            save_index(extra_dir, "raw_files",
                                       rebuilt_index("raw_files")),
                            "knowledges", rebuilt_index("knowledges")),
                        "embeddings", rebuilt_index("embeddings"))
    /\ last' = Last("rebuild_all_indexes", <<>>, NoArg, None, "rebuilt")
    /\ UNCHANGED <<others, up, raw_files_dir, knowledges_dir, embeddings_dir>>

-----------------------------------------------------------------------------
(* Raw files                                                               *)

\* store_raw_file(content=...): "" becomes ".bin", a leading dot is added
normalize_extension(file_extension) ==
    IF file_extension = <<>> THEN <<Dot, "bin">>
    ELSE IF Head(file_extension) # Dot THEN <<Dot>> \o file_extension
    ELSE file_extension

\* store_raw_file without its first check: a call with both file_path and
\* content copies from file_path
store_raw_file_plan_both_accepted(file_id, file_path, content, file_extension) ==
    IF file_path = None /\ content = None
    THEN [exc |-> "ValueError"]
    ELSE IF file_path # None
    THEN IF ~file_path.exists
         THEN [exc |-> "FileNotFoundError"]
         ELSE [exc |-> "none",
               name |-> file_id \o suffix(file_path.name),
               extension |-> suffix(file_path.name),
               data |-> Bytes(file_path.data),
               mode |-> "copy"]
    ELSE [exc |-> "none",
          name |-> file_id \o normalize_extension(file_extension),
          extension |-> normalize_extension(file_extension),
          data |-> content,
          mode |-> "content"]

\* store_raw_file up to the write: the error raised, or the target name, the
\* extension recorded in the index and the bytes written
store_raw_file_plan(file_id, file_path, content, file_extension) ==
    IF file_path # None /\ content # None
    THEN [exc |-> "ValueError"]
    ELSE IF file_path = None /\ content = None
    THEN [exc |-> "ValueError"]
    ELSE IF file_path # None
    THEN IF ~file_path.exists
         THEN [exc |-> "FileNotFoundError"]
         ELSE [exc |-> "none",
               name |-> file_id \o suffix(file_path.name),
               extension |-> suffix(file_path.name),
               data |-> Bytes(file_path.data),
               mode |-> "copy"]
    ELSE [exc |-> "none",
          name |-> file_id \o normalize_extension(file_extension),
          extension |-> normalize_extension(file_extension),
          data |-> content,
          mode |-> "content"]

store_raw_file(file_id, file_path, content, file_extension) ==
    LET plan == store_raw_file_plan(file_id, file_path, content, file_extension)
    IN /\ up
       /\ IF plan.exc # "none"
          THEN /\ last' = Last("store_raw_file", file_id, NoArg,
                               Raise(plan.exc), "rejected")
               /\ UNCHANGED <<raw_files_dir, raw_files_index, extra_dir>>
          ELSE \E pos \in RawPositions(plan.name) :
                 LET entry == [path |-> RelPath("raw_files", plan.name),
                               extension |-> plan.extension]
                     index == update_index(raw_files_index, file_id, entry)
                 IN /\ raw_files_dir' =
                           RawWrite(raw_files_dir, plan.name, plan.data, pos)
                    /\ raw_files_index' = index
                    /\ extra_dir' = save_index(extra_dir, "raw_files", index)
                    /\ last' = Last("store_raw_file", file_id, plan.data,
                                    PathRet(entry.path), plan.mode)
       /\ UNCHANGED <<others, up, knowledges_dir, embeddings_dir,
                      knowledges_index, embeddings_index>>

\* the files glob(f"{file_id}.*") yields, in listing order
glob_raw_files(file_id) ==
    SelectSeq(raw_files_dir, LAMBDA e : glob_id_dot_star(e.name, file_id))

\* get_raw_file as a function of the state: the index it leaves, whether it
\* saved the index, what it returns and the branch it took
get_raw_file_result(file_id) ==
    IF file_id \in DOMAIN raw_files_index
    THEN IF path_exists(raw_files_index[file_id].path)
         THEN [index |-> raw_files_index, saved |-> FALSE,
               ret |-> PathRet(raw_files_index[file_id].path), note |-> "indexed"]
         ELSE [index |-> prune_entry(raw_files_index, file_id), saved |-> TRUE,
               ret |-> None, note |-> "pruned"]
    ELSE IF glob_raw_files(file_id) # <<>>
    THEN LET name == Head(glob_raw_files(file_id)).name
         IN [index |-> Put(raw_files_index, file_id,
                           [path |-> RelPath("raw_files", name),
                            extension |-> suffix(name)]),
             saved |-> TRUE,
             ret |-> PathRet(RelPath("raw_files", name)), note |-> "scanned"]
    ELSE [index |-> raw_files_index, saved |-> FALSE,
          ret |-> None, note |-> "absent"]

get_raw_file(file_id) ==
    LET r == get_raw_file_result(file_id)
    IN /\ up
       /\ raw_files_index' = r.index
       /\ extra_dir' = IF r.saved
                       THEN save_index(extra_dir, "raw_files", r.index)
                       ELSE extra_dir
       /\ last' = Last("get_raw_file", file_id, NoArg, r.ret, r.note)
       /\ UNCHANGED <<others, up, raw_files_dir, knowledges_dir, embeddings_dir,
                      knowledges_index, embeddings_index>>

\* delete_raw_file: get_raw_file, then unlink and remove the index entry
delete_raw_file(file_id) ==
    LET r == get_raw_file_result(file_id)
        after_get == IF r.saved
                     THEN save_index(extra_dir, "raw_files", r.index)
                     ELSE extra_dir
    IN /\ up
       /\ IF r.ret.kind = "path"
          THEN /\ raw_files_dir' = RawUnlink(raw_files_dir, r.ret.path.name)
               /\ raw_files_index' = Remove(r.index, file_id)
               /\ extra_dir' = IF file_id \in DOMAIN r.index
                               THEN save_index(after_get, "raw_files",
                                               Remove(r.index, file_id))
                               ELSE after_get
               /\ last' = Last("delete_raw_file", file_id, NoArg,
                               BoolRet(TRUE), r.note)
          ELSE /\ raw_files_dir' = raw_files_dir
               /\ raw_files_index' = r.index
               /\ extra_dir' = after_get
               /\ last' = Last("delete_raw_file", file_id, NoArg,
                               BoolRet(FALSE), r.note)
       /\ UNCHANGED <<others, up, knowledges_dir, embeddings_dir,
                      knowledges_index, embeddings_index>>

-----------------------------------------------------------------------------
(* Knowledge items                                                         *)

Paper(arxiv_id, title) ==
    [cls |-> "Paper", arxiv_id |-> arxiv_id, title |-> title,
     pdf_url |-> "u", tags |-> "g", meta_info |-> "m"]

Generic(id, title) ==
    [cls |-> "KnowledgeItem", id |-> id, title |-> title,
     tags |-> "g", meta_info |-> "m"]

\* the items store_knowledge is called with
KnowledgeItems ==
    {Paper(k, t) : k \in KnowledgeIds, t \in Titles}
        \cup {Generic(k, "T1") : k \in KnowledgeIds}

\* get_primary_id: arxiv_id for a Paper, the item's id otherwise
get_primary_id(knowledge) ==
    IF knowledge.cls = "Paper" THEN knowledge.arxiv_id ELSE knowledge.id

\* knowledge.model_dump(): the fields of the item; the class is not a field
model_dump(knowledge) ==
    [f \in (DOMAIN knowledge) \ {"cls"} |-> knowledge[f]]

\* KnowledgeItem(**data) as get_knowledge calls it: the class named at the call
\* is KnowledgeItem whatever class the stored item had; the dumped fields are
\* taken to be kept as they are
KnowledgeItem(data) == ("cls" :> "KnowledgeItem") @@ data

\* json.load of a knowledge file followed by KnowledgeItem(**data); a file
\* that does not parse raises, and get_knowledge returns None
read_knowledge(content) ==
    IF content.kind = "json" THEN ItemRet(KnowledgeItem(content.data)) ELSE None

store_knowledge(knowledge) ==
    LET knowledge_id == get_primary_id(knowledge)
        name == json_name(knowledge_id)
        index == update_index(knowledges_index, knowledge_id,
                     [path |-> RelPath("knowledges", name)])
    IN /\ up
       /\ knowledges_dir' = Put(knowledges_dir, name, Json(model_dump(knowledge)))
       /\ knowledges_index' = index
       /\ extra_dir' = save_index(extra_dir, "knowledges", index)
       /\ last' = Last("store_knowledge", knowledge_id, ItemRet(knowledge),
                       IdRet(knowledge_id), "stored")
       /\ UNCHANGED <<others, up, raw_files_dir, embeddings_dir,
                      raw_files_index, embeddings_index>>

\* get_knowledge as a function of the state
get_knowledge_result(knowledge_id) ==
    IF knowledge_id \in DOMAIN knowledges_index
    THEN IF path_exists(knowledges_index[knowledge_id].path)
         THEN [index |-> knowledges_index, saved |-> FALSE,
               ret |-> read_knowledge(
                           knowledges_dir[knowledges_index[knowledge_id].path.name]),
               note |-> "indexed"]
         ELSE [index |-> prune_entry(knowledges_index, knowledge_id), saved |-> TRUE,
               ret |-> None, note |-> "pruned"]
    ELSE IF json_name(knowledge_id) \in DOMAIN knowledges_dir
    THEN [index |-> Put(knowledges_index, knowledge_id,
                        [path |-> RelPath("knowledges", json_name(knowledge_id))]),
          saved |-> TRUE,
          ret |-> read_knowledge(knowledges_dir[json_name(knowledge_id)]),
          note |-> "scanned"]
    ELSE [index |-> knowledges_index, saved |-> FALSE,
          ret |-> None, note |-> "absent"]

get_knowledge(knowledge_id) ==
    LET r == get_knowledge_result(knowledge_id)
    IN /\ up
       /\ knowledges_index' = r.index
       /\ extra_dir' = IF r.saved
                       THEN save_index(extra_dir, "knowledges", r.index)
                       ELSE extra_dir
       /\ last' = Last("get_knowledge", knowledge_id, NoArg, r.ret, r.note)
       /\ UNCHANGED <<others, up, raw_files_dir, knowledges_dir, embeddings_dir,
                      raw_files_index, embeddings_index>>

\* the path a delete looks at: the indexed path, else {dir}/{id}.json
delete_target(index, dirname, id) ==
    IF id \in DOMAIN index THEN index[id].path
    ELSE RelPath(dirname, json_name(id))

delete_knowledge(knowledge_id) ==
    LET file_path == delete_target(knowledges_index, "knowledges", knowledge_id)
    IN /\ up
       /\ IF path_exists(file_path)
          THEN /\ knowledges_dir' = Remove(knowledges_dir, file_path.name)
               /\ knowledges_index' = Remove(knowledges_index, knowledge_id)
               /\ extra_dir' = IF knowledge_id \in DOMAIN knowledges_index
                               THEN save_index(extra_dir, "knowledges",
                                        Remove(knowledges_index, knowledge_id))
                               ELSE extra_dir
               /\ last' = Last("delete_knowledge", knowledge_id, NoArg,
                               BoolRet(TRUE), "deleted")
          ELSE /\ UNCHANGED <<knowledges_dir, knowledges_index, extra_dir>>
               /\ last' = Last("delete_knowledge", knowledge_id, NoArg,
                               BoolRet(FALSE),
                               IF knowledge_id \in DOMAIN knowledges_index
                               THEN "missing" ELSE "absent")
       /\ UNCHANGED <<others, up, raw_files_dir, embeddings_dir,
                      raw_files_index, embeddings_index>>

-----------------------------------------------------------------------------
(* Embeddings                                                              *)

\* the record store_embedding writes; created_at is the mtime of the
\* working directory, which the store does not control
embedding_data(knowledge_id, embedding, model) ==
    [knowledge_id |-> knowledge_id, embedding |-> embedding,
     model |-> model, created_at |-> "mtime"]

\* json.load of an embedding file; a file that does not parse raises, and
\* get_embedding returns None
read_embedding(content) ==
    IF content.kind = "json" THEN DataRet(content.data) ELSE None

store_embedding(knowledge_id, embedding, model) ==
    LET name == json_name(knowledge_id)
        index == update_index(embeddings_index, knowledge_id,
                     [path |-> RelPath("embeddings", name)])
    IN /\ up
       /\ embeddings_dir' =
              Put(embeddings_dir, name,
                  Json(embedding_data(knowledge_id, embedding, model)))
       /\ embeddings_index' = index
       /\ extra_dir' = save_index(extra_dir, "embeddings", index)
       /\ last' = Last("store_embedding", knowledge_id, DataRet(embedding),
                       IdRet(knowledge_id), "stored")
       /\ UNCHANGED <<others, up, raw_files_dir, knowledges_dir,
                      raw_files_index, knowledges_index>>

\* get_embedding as a function of the state
get_embedding_result(knowledge_id) ==
    IF knowledge_id \in DOMAIN embeddings_index
    THEN IF path_exists(embeddings_index[knowledge_id].path)
         THEN [index |-> embeddings_index, saved |-> FALSE,
               ret |-> read_embedding(
                           embeddings_dir[embeddings_index[knowledge_id].path.name]),
               note |-> "indexed"]
         ELSE [index |-> prune_entry(embeddings_index, knowledge_id), saved |-> TRUE,
               ret |-> None, note |-> "pruned"]
    ELSE IF json_name(knowledge_id) \in DOMAIN embeddings_dir
    THEN [index |-> Put(embeddings_index, knowledge_id,
                        [path |-> RelPath("embeddings", json_name(knowledge_id))]),
          saved |-> TRUE,
          ret |-> read_embedding(embeddings_dir[json_name(knowledge_id)]),
          note |-> "scanned"]
    ELSE [index |-> embeddings_index, saved |-> FALSE,
          ret |-> None, note |-> "absent"]

get_embedding(knowledge_id) ==
    LET r == get_embedding_result(knowledge_id)
    IN /\ up
       /\ embeddings_index' = r.index
       /\ extra_dir' = IF r.saved
                       THEN save_index(extra_dir, "embeddings", r.index)
                       ELSE extra_dir
       /\ last' = Last("get_embedding", knowledge_id, NoArg, r.ret, r.note)
       /\ UNCHANGED <<others, up, raw_files_dir, knowledges_dir, embeddings_dir,
                      raw_files_index, knowledges_index>>

delete_embedding(knowledge_id) ==
    LET file_path == delete_target(embeddings_index, "embeddings", knowledge_id)
    IN /\ up
       /\ IF path_exists(file_path)
          THEN /\ embeddings_dir' = Remove(embeddings_dir, file_path.name)
               /\ embeddings_index' = Remove(embeddings_index, knowledge_id)
               /\ extra_dir' = IF knowledge_id \in DOMAIN embeddings_index
                               THEN save_index(extra_dir, "embeddings",
                                        Remove(embeddings_index, knowledge_id))
                               ELSE extra_dir
               /\ last' = Last("delete_embedding", knowledge_id, NoArg,
                               BoolRet(TRUE), "deleted")
          ELSE /\ UNCHANGED <<embeddings_dir, embeddings_index, extra_dir>>
               /\ last' = Last("delete_embedding", knowledge_id, NoArg,
                               BoolRet(FALSE),
                               IF knowledge_id \in DOMAIN embeddings_index
                               THEN "missing" ELSE "absent")
       /\ UNCHANGED <<others, up, raw_files_dir, knowledges_dir,
                      raw_files_index, knowledges_index>>

-----------------------------------------------------------------------------
(* Two threads of one process inside write operations on the knowledges    *)
(* index.  LocalStorage takes no lock, so the threads interleave between   *)
(* the statements of store_knowledge, delete_knowledge and _save_index.    *)

Threads == {"t1", "t2"}

\* the IDs the threads store and delete; they have the same length
ThreadIds == {<<"k">>, <<"j">>}

Idle == [pc |-> "idle", op |-> "none", id |-> <<>>, item |-> None, buf |-> None]

\* the length of the text json.dump writes for an index, in entries: the IDs
\* have the same length, so a text is longer exactly when it has more entries
dump_length(index) == Cardinality(DOMAIN index)

\* an index file whose bytes are the start of one dump followed by the end of
\* a longer one: it does not parse
Garbled(len) == [kind |-> "garbled", len |-> len]

file_length(content) ==
    CASE content.kind = "json" -> dump_length(content.data)
      [] content.kind = "garbled" -> content.len
      [] OTHER -> 0

\* closing a file opened with "w": the buffered text is written at offset 0 of
\* the file as it is then.  Nothing is cut off at the end of the text, so what
\* another handle wrote since the open stays behind it.
flush(current, buf) ==
    IF dump_length(buf.data) >= file_length(current)
    THEN buf
    ELSE Garbled(file_length(current))

ThreadFrame ==
    UNCHANGED <<up, raw_files_dir, embeddings_dir, raw_files_index,
                embeddings_index, download_timeout, requests, llm>>

\* thread t calls store_knowledge(knowledge): open(file_path, "w") + json.dump
thread_store_knowledge(t, knowledge) ==
    /\ up
    /\ threads[t].pc = "idle"
    /\ knowledges_dir' = Put(knowledges_dir, json_name(get_primary_id(knowledge)),
                             Json(model_dump(knowledge)))
    /\ threads' = [threads EXCEPT ![t] =
                      [pc |-> "update", op |-> "store_knowledge",
                       id |-> get_primary_id(knowledge),
                       item |-> ItemRet(knowledge), buf |-> None]]
    /\ UNCHANGED <<knowledges_index, extra_dir, last>>
    /\ ThreadFrame

\* self._knowledges_index[knowledge_id] = {"path": ...}
thread_update_index(t) ==
    /\ threads[t].pc = "update"
    /\ knowledges_index' =
           update_index(knowledges_index, threads[t].id,
                        [path |-> RelPath("knowledges", json_name(threads[t].id))])
    /\ threads' = [threads EXCEPT ![t].pc = "open"]
    /\ UNCHANGED <<knowledges_dir, extra_dir, last>>
    /\ ThreadFrame

\* thread t calls delete_knowledge(knowledge_id): the file is looked up and
\* unlinked, or False is returned
thread_delete_knowledge(t, knowledge_id) ==
    LET file_path == delete_target(knowledges_index, "knowledges", knowledge_id)
    IN /\ up
       /\ threads[t].pc = "idle"
       /\ IF path_exists(file_path)
          THEN /\ knowledges_dir' = Remove(knowledges_dir, file_path.name)
               /\ threads' = [threads EXCEPT ![t] =
                                 [pc |-> "del", op |-> "delete_knowledge",
                                  id |-> knowledge_id, item |-> None,
                                  buf |-> None]]
               /\ last' = last
          ELSE /\ UNCHANGED <<knowledges_dir, threads>>
               /\ last' = Last("delete_knowledge", knowledge_id, NoArg,
                                BoolRet(FALSE), "returned")
       /\ UNCHANGED <<knowledges_index, extra_dir>>
       /\ ThreadFrame

\* if knowledge_id in self._knowledges_index: del ...; else return True
thread_del_entry(t) ==
    /\ threads[t].pc = "del"
    /\ IF threads[t].id \in DOMAIN knowledges_index
       THEN /\ knowledges_index' = Remove(knowledges_index, threads[t].id)
            /\ threads' = [threads EXCEPT ![t].pc = "open"]
            /\ last' = last
       ELSE /\ knowledges_index' = knowledges_index
            /\ threads' = [threads EXCEPT ![t] = Idle]
            /\ last' = Last("delete_knowledge", threads[t].id, NoArg,
                             BoolRet(TRUE), "returned")
    /\ UNCHANGED <<knowledges_dir, extra_dir>>
    /\ ThreadFrame

\* _save_index: open(index_path, "w") leaves the file empty
thread_save_index_open(t) ==
    /\ threads[t].pc = "open"
    /\ extra_dir' = Put(extra_dir, get_index_path("knowledges"), Partial)
    /\ threads' = [threads EXCEPT ![t].pc = "dump"]
    /\ UNCHANGED <<knowledges_dir, knowledges_index, last>>
    /\ ThreadFrame

\* _save_index: json.dump(index_data, f) puts the text of the index, as it is
\* now, in the buffer of the file object
thread_save_index_dump(t) ==
    /\ threads[t].pc = "dump"
    /\ threads' = [threads EXCEPT ![t].pc = "close",
                                  ![t].buf = Json(knowledges_index)]
    /\ UNCHANGED <<knowledges_dir, knowledges_index, extra_dir, last>>
    /\ ThreadFrame

\* _save_index: the with block closes the file, and the operation returns
thread_save_index_close(t) ==
    /\ threads[t].pc = "close"
    /\ extra_dir' = Put(extra_dir, get_index_path("knowledges"),
                        flush(extra_dir[get_index_path("knowledges")],
                              threads[t].buf))
    /\ threads' = [threads EXCEPT ![t] = Idle]
    /\ last' = Last(threads[t].op, threads[t].id, threads[t].item,
                     IF threads[t].op = "store_knowledge"
                     THEN IdRet(threads[t].id) ELSE BoolRet(TRUE),
                     "returned")
    /\ UNCHANGED <<knowledges_dir, knowledges_index>>
    /\ ThreadFrame

-----------------------------------------------------------------------------
(* The process stopping, and a write cut short                             *)

\* the process ends between operations; the object and its maps are gone
Shutdown ==
    /\ up
    /\ up' = FALSE
    /\ raw_files_index' = EmptyMap
    /\ knowledges_index' = EmptyMap
    /\ embeddings_index' = EmptyMap
    /\ last' = Last("shutdown", <<>>, NoArg, None, "clean")
    /\ UNCHANGED <<others, raw_files_dir, knowledges_dir, embeddings_dir, extra_dir>>

\* where a store is cut short: while the data file is being written, after
\* the data file and before the index file is opened, or while the index
\* file is being written
KillPoints == {"data", "between", "index"}

\* the file a write leaves when it is cut short: open(path, "w") has
\* truncated it and the new content is not complete
interrupted_write(old, new) == Partial

Killed(id, point) ==
    /\ up' = FALSE
    /\ raw_files_index' = EmptyMap
    /\ knowledges_index' = EmptyMap
    /\ embeddings_index' = EmptyMap
    /\ last' = Last("killed", id, NoArg, None, point)

\* store_knowledge with the process killed at point
store_knowledge_killed(knowledge, point) ==
    LET knowledge_id == get_primary_id(knowledge)
        name == json_name(knowledge_id)
        new == Json(model_dump(knowledge))
        index_path == get_index_path("knowledges")
    IN /\ up
       /\ knowledges_dir' =
              Put(knowledges_dir, name,
                  IF point = "data"
                  THEN interrupted_write(
                           IF name \in DOMAIN knowledges_dir
                           THEN knowledges_dir[name] ELSE None, new)
                  ELSE new)
       /\ extra_dir' =
              IF point = "index"
              THEN Put(extra_dir, index_path,
                       interrupted_write(
                           extra_dir[index_path],
                           Json(Put(knowledges_index, knowledge_id,
                                    [path |-> RelPath("knowledges", name)]))))
              ELSE extra_dir
       /\ Killed(knowledge_id, point)
       /\ UNCHANGED <<others, raw_files_dir, embeddings_dir>>

\* store_raw_file(content=...) with the process killed at point
store_raw_file_killed(file_id, content, file_extension, point) ==
    LET plan == store_raw_file_plan(file_id, None, content, file_extension)
        index_path == get_index_path("raw_files")
    IN /\ up
       /\ \E pos \in RawPositions(plan.name) :
            raw_files_dir' =
                RawWrite(raw_files_dir, plan.name,
                         IF point = "data"
                         THEN interrupted_write(
                                  IF plan.name \in RawNames
                                  THEN RawRead(plan.name) ELSE None, plan.data)
                         ELSE plan.data,
                         pos)
       /\ extra_dir' =
              IF point = "index"
              THEN Put(extra_dir, index_path,
                       interrupted_write(
                           extra_dir[index_path],
                           Json(Put(raw_files_index, file_id,
                                    [path |-> RelPath("raw_files", plan.name),
                                     extension |-> plan.extension]))))
              ELSE extra_dir
       /\ Killed(file_id, point)
       /\ UNCHANGED <<others, knowledges_dir, embeddings_dir>>

\* store_embedding with the process killed at point
store_embedding_killed(knowledge_id, embedding, model, point) ==
    LET name == json_name(knowledge_id)
        new == Json(embedding_data(knowledge_id, embedding, model))
        index_path == get_index_path("embeddings")
    IN /\ up
       /\ embeddings_dir' =
              Put(embeddings_dir, name,
                  IF point = "data"
                  THEN interrupted_write(
                           IF name \in DOMAIN embeddings_dir
                           THEN embeddings_dir[name] ELSE None, new)
                  ELSE new)
       /\ extra_dir' =
              IF point = "index"
              THEN Put(extra_dir, index_path,
                       interrupted_write(
                           extra_dir[index_path],
                           Json(Put(embeddings_index, knowledge_id,
                                    [path |-> RelPath("embeddings", name)]))))
              ELSE extra_dir
       /\ Killed(knowledge_id, point)
       /\ UNCHANGED <<others, raw_files_dir, knowledges_dir>>

-----------------------------------------------------------------------------
(* Stores on a disk that refuses a write                                   *)

\* the write that fails with OSError: the open of the data file, or the open
\* of the index file in _save_index
WriteFailures == {"data", "index"}

\* what a store returns when a write fails: the except clause of the store
\* logs and re-raises; the except clause of _save_index logs and returns
store_result_on_failure(failure, result) ==
    IF failure = "data" THEN Raise("OSError") ELSE result

\* store_knowledge when the write named by failure raises OSError
store_knowledge_write_fails(knowledge, failure) ==
    LET knowledge_id == get_primary_id(knowledge)
        name == json_name(knowledge_id)
    IN /\ up
       /\ IF failure = "data"
          THEN UNCHANGED <<knowledges_dir, knowledges_index>>
          ELSE /\ knowledges_dir' =
                      Put(knowledges_dir, name, Json(model_dump(knowledge)))
               /\ knowledges_index' =
                      update_index(knowledges_index, knowledge_id,
                                   [path |-> RelPath("knowledges", name)])
       /\ last' = Last("store_knowledge", knowledge_id, ItemRet(knowledge),
                       store_result_on_failure(failure, IdRet(knowledge_id)),
                       "write_failed")
       /\ UNCHANGED <<others, up, raw_files_dir, embeddings_dir, extra_dir,
                      raw_files_index, embeddings_index>>

\* store_raw_file(content=...) when the write named by failure raises OSError
store_raw_file_write_fails(file_id, content, file_extension, failure) ==
    LET plan == store_raw_file_plan(file_id, None, content, file_extension)
        entry == [path |-> RelPath("raw_files", plan.name),
                  extension |-> plan.extension]
    IN /\ up
       /\ IF failure = "data"
          THEN UNCHANGED <<raw_files_dir, raw_files_index>>
          ELSE /\ \E pos \in RawPositions(plan.name) :
                     raw_files_dir' =
                         RawWrite(raw_files_dir, plan.name, plan.data, pos)
               /\ raw_files_index' = update_index(raw_files_index, file_id, entry)
       /\ last' = Last("store_raw_file", file_id, plan.data,
                       store_result_on_failure(failure, PathRet(entry.path)),
                       "write_failed")
       /\ UNCHANGED <<others, up, knowledges_dir, embeddings_dir, extra_dir,
                      knowledges_index, embeddings_index>>

\* store_embedding when the write named by failure raises OSError
store_embedding_write_fails(knowledge_id, embedding, model, failure) ==
    LET name == json_name(knowledge_id)
    IN /\ up
       /\ IF failure = "data"
          THEN UNCHANGED <<embeddings_dir, embeddings_index>>
          ELSE /\ embeddings_dir' =
                      Put(embeddings_dir, name,
                          Json(embedding_data(knowledge_id, embedding, model)))
               /\ embeddings_index' =
                      update_index(embeddings_index, knowledge_id,
                                   [path |-> RelPath("embeddings", name)])
       /\ last' = Last("store_embedding", knowledge_id, DataRet(embedding),
                       store_result_on_failure(failure, IdRet(knowledge_id)),
                       "write_failed")
       /\ UNCHANGED <<others, up, raw_files_dir, knowledges_dir, extra_dir,
                      raw_files_index, knowledges_index>>

-----------------------------------------------------------------------------
(* process_knowledge: store the item, then download the PDF of a Paper     *)

\* BaseStorageConfig.download_timeout: default=30
DEFAULT_DOWNLOAD_TIMEOUT == 30

\* the number of requests.get calls after which no further download is tried
MaxRequests == 2

\* the timeout argument written in _download_file_content
REQUESTS_TIMEOUT == 30

\* values of config.download_timeout
DownloadTimeouts == {DEFAULT_DOWNLOAD_TIMEOUT, 1}

\* a Paper whose pdf_url is not set
PaperNoUrl(arxiv_id, title) == [Paper(arxiv_id, title) EXCEPT !.pdf_url = ""]

\* the items process_knowledge is called with
ProcessItems ==
    UNION {{Paper(k, "T1"), PaperNoUrl(k, "T1"), Generic(k, "T1")} :
              k \in KnowledgeIds}

\* bytes of length 0
EmptyBytes == Bytes(0)

\* what requests.get(url, timeout=...) does: a response with status 200 and a
\* body, a response with status 500, or an exception
Responses ==
    {[kind |-> "ok", content |-> Bytes(b)] : b \in Contents}
        \cup {[kind |-> "ok", content |-> EmptyBytes],
              [kind |-> "http_500", content |-> None],
              [kind |-> "timeout", content |-> None],
              [kind |-> "connection_error", content |-> None]}

\* _download_file_content: response.content, or None when requests.get or
\* raise_for_status raised
download_file_content(response) ==
    IF response.kind = "ok" THEN response.content ELSE None

\* `if content:` is false for None and for empty bytes
truthy(content) == content # None /\ content # EmptyBytes

has_existing_pdf_never(r) == FALSE

\* existing_pdf and existing_pdf.exists(), existing_pdf = get_raw_file(id)
has_existing_pdf(r) == r.ret.kind = "path"

catch_nothing(exc) == exc

\* except Exception in _handle_paper_files: the error is logged, not raised
catch_download_errors(exc) == "none"

\* _handle_paper_files as a function of the state: r is what get_raw_file
\* does; get is whether requests.get is called; store is whether
\* store_raw_file is called; exc is what escapes
handle_paper_files_plan(paper, response, raw_failure) ==
    LET r == get_raw_file_result(get_primary_id(paper))
        content == download_file_content(response)
    IN IF has_existing_pdf(r)
       THEN [r |-> r, get |-> FALSE, store |-> FALSE, exc |-> "none",
             note |-> "exists"]
       ELSE IF paper.pdf_url = ""
       THEN [r |-> r, get |-> FALSE, store |-> FALSE, exc |-> "none",
             note |-> "no_url"]
       ELSE IF ~truthy(content)
       THEN [r |-> r, get |-> TRUE, store |-> FALSE, exc |-> "none",
             note |-> IF content = None THEN "download_failed" ELSE "empty"]
       ELSE IF raw_failure = "data"
       THEN [r |-> r, get |-> TRUE, store |-> FALSE,
             exc |-> catch_download_errors("OSError"), note |-> "store_failed"]
       ELSE [r |-> r, get |-> TRUE, store |-> TRUE, exc |-> "none",
             note |-> "downloaded"]

\* the step before this one, as process_knowledge's record of it
Previous ==
    [op |-> last.op, arg |-> last.arg, note |-> last.note,
     gets |-> IF last.op = "process_knowledge" THEN last.gets ELSE 0]

\* process_knowledge(knowledge): store_knowledge, then for a Paper
\* _handle_paper_files; response is what the GET meets, raw_failure whether
\* the write of the downloaded bytes fails
process_knowledge(knowledge, response, raw_failure) ==
    LET knowledge_id == get_primary_id(knowledge)
        kname == json_name(knowledge_id)
        kindex == update_index(knowledges_index, knowledge_id,
                      [path |-> RelPath("knowledges", kname)])
        is_paper == knowledge.cls = "Paper"
        plan == handle_paper_files_plan(knowledge, response, raw_failure)
        pdf == store_raw_file_plan(knowledge_id, None, plan.r.ret, <<Dot, "pdf">>)
        extra1 == save_index(extra_dir, "knowledges", kindex)
        extra2 == IF is_paper /\ plan.r.saved
                  THEN save_index(extra1, "raw_files", plan.r.index)
                  ELSE extra1
    IN /\ up
       /\ (is_paper /\ plan.get) => Len(requests) < MaxRequests
       /\ knowledges_dir' = Put(knowledges_dir, kname, Json(model_dump(knowledge)))
       /\ knowledges_index' = kindex
       /\ requests' = IF is_paper /\ plan.get
                      THEN Append(requests, [url |-> knowledge.pdf_url,
                                             timeout |-> REQUESTS_TIMEOUT])
                      ELSE requests
       /\ IF is_paper /\ plan.store
          THEN LET target == knowledge_id \o <<Dot, "pdf">>
                   entry == [path |-> RelPath("raw_files", target),
                             extension |-> <<Dot, "pdf">>]
                   index == update_index(plan.r.index, knowledge_id, entry)
               IN /\ \E pos \in RawPositions(target) :
                        raw_files_dir' =
                            RawWrite(raw_files_dir, target, response.content, pos)
                  /\ raw_files_index' = index
                  /\ extra_dir' = save_index(extra2, "raw_files", index)
          ELSE /\ raw_files_dir' = raw_files_dir
               /\ raw_files_index' = IF is_paper THEN plan.r.index
                                     ELSE raw_files_index
               /\ extra_dir' = extra2
       /\ last' = [op |-> "process_knowledge", id |-> knowledge_id,
                   arg |-> ItemRet(knowledge),
                   ret |-> IF is_paper /\ plan.exc # "none"
                           THEN Raise(plan.exc) ELSE IdRet(knowledge_id),
                   note |-> IF is_paper THEN plan.note ELSE "not_paper",
                   rebuilt |-> {},
                   gets |-> IF is_paper /\ plan.get THEN 1 ELSE 0,
                   prev |-> Previous]
       /\ UNCHANGED <<up, embeddings_dir, embeddings_index, threads,
                      download_timeout, llm>>

-----------------------------------------------------------------------------
(* LLMBlock._call_with_retry                                               *)

\* the largest config.retry_attempts of the model
MaxRetryAttempts == 4

\* the largest number of calls the provider fails before it succeeds
MaxFailures == 5

\* values of config.retry_delay, in seconds
RetryDelays == {0, 1}

\* the rest of the state while an LLM block runs
LLMFrame == UNCHANGED <<store_vars, threads, download_timeout, requests>>

\* a block with retry_attempts and retry_delay set, about to enter
\* _call_with_retry with a provider that raises on its first fails calls
RetryCall(retry_attempts, retry_delay, fails) ==
    [kind |-> "retry", retry_attempts |-> retry_attempts,
     retry_delay |-> retry_delay, fails |-> fails,
     attempt |-> 0, calls |-> 0, sleeps |-> <<>>, pc |-> "call", ret |-> None]

\* the provider: completion(**params) raises on the first fails calls
completion_raises(calls_before, fails) == calls_before < fails

sleep_after_every_failure(attempt, retry_attempts) == TRUE

\* if attempt < self.config.retry_attempts: time.sleep(retry_delay)
sleep_after_failure(attempt, retry_attempts) == attempt < retry_attempts

\* one pass of the loop body: completion(**params) and what follows it
call_with_retry_attempt ==
    /\ llm.kind = "retry"
    /\ llm.pc = "call"
    /\ llm.attempt < llm.retry_attempts + 1
    /\ llm' = IF ~completion_raises(llm.calls, llm.fails)
              THEN [llm EXCEPT !.calls = @ + 1, !.pc = "returned",
                               !.ret = [kind |-> "response"]]
              ELSE IF sleep_after_failure(llm.attempt, llm.retry_attempts)
              THEN [llm EXCEPT !.calls = @ + 1, !.pc = "sleep"]
              ELSE [llm EXCEPT !.calls = @ + 1, !.attempt = @ + 1]
    /\ LLMFrame

\* time.sleep(self.config.retry_delay), then the next pass
call_with_retry_sleep ==
    /\ llm.kind = "retry"
    /\ llm.pc = "sleep"
    /\ llm' = [llm EXCEPT !.sleeps = Append(@, llm.retry_delay),
                          !.attempt = @ + 1, !.pc = "call"]
    /\ LLMFrame

\* the loop is over without a response: return None
call_with_retry_exhausted ==
    /\ llm.kind = "retry"
    /\ llm.pc = "call"
    /\ ~(llm.attempt < llm.retry_attempts + 1)
    /\ llm' = [llm EXCEPT !.pc = "returned", !.ret = None]
    /\ LLMFrame

-----------------------------------------------------------------------------
(* temporary_config of LLMBlock and of EmbeddingBlock                      *)

\* the fields of the configuration the model follows
ConfigFields == {"timeout", "retry_attempts"}

\* the names hasattr(self.config, key) is true for: the fields, and the
\* methods of the configuration class, of which get_provider_type is one
ConfigAttributes == ConfigFields \cup {"get_provider_type"}

\* values of config.timeout; LLMConfig declares the field with gt=0
Timeouts == {60, 5, 0}

\* values of config.retry_attempts
RetryAttempts == {3, 0}

Blocks == {"LLMBlock", "EmbeddingBlock"}

\* the configurations a block is constructed with
Configs == [timeout : Timeouts \ {0}, retry_attempts : RetryAttempts]

\* one key=value of **kwargs
OverridePairs ==
    {[key |-> "timeout", value |-> v] : v \in Timeouts}
        \cup {[key |-> "retry_attempts", value |-> v] : v \in RetryAttempts}
        \cup {[key |-> "get_provider_type", value |-> 1],
              [key |-> "zzz", value |-> 1]}

\* **kwargs, in the order the call gives them
Overrides ==
    {<<p>> : p \in OverridePairs}
        \cup {o \in OverridePairs \X OverridePairs : o[1].key # o[2].key}

RECURSIVE dict_update(_, _)
\* current_dict.update(overrides)
dict_update(dict, overrides) ==
    IF overrides = <<>> THEN dict
    ELSE dict_update(Put(dict, Head(overrides).key, Head(overrides).value),
                     Tail(overrides))

\* LLMConfig(**current_dict): keys that are no fields are ignored, the
\* declared constraints are validated
LLMConfig(dict) ==
    IF dict["timeout"] > 0
    THEN [exc |-> "none", config |-> [f \in ConfigFields |-> dict[f]]]
    ELSE [exc |-> "ValidationError", config |-> None]

\* LLMConfig.create_variant(**overrides)
create_variant(config, overrides) == LLMConfig(dict_update(config, overrides))

\* setattr(self.config, key, value) on a pydantic model: a field is assigned
\* without validation, any other name is refused
setattr_raises(key) == key \notin ConfigFields

RECURSIVE apply_setattr(_, _, _)
\* the loop of EmbeddingBlock.temporary_config over kwargs.items(): the
\* configuration and the saved originals when it ends or raises
apply_setattr(config, overrides, original) ==
    IF overrides = <<>>
    THEN [exc |-> "none", config |-> config, original |-> original]
    ELSE LET key == Head(overrides).key
         IN IF key \notin ConfigAttributes
            THEN apply_setattr(config, Tail(overrides), original)
            ELSE IF setattr_raises(key)
            THEN [exc |-> "ValueError", config |-> config, original |-> original]
            ELSE apply_setattr([config EXCEPT ![key] = Head(overrides).value],
                               Tail(overrides),
                               Put(original, key, config[key]))

\* for key, value in original_config.items(): setattr(self.config, key, value)
restore_saved(config, original) ==
    [f \in DOMAIN config |-> IF f \in DOMAIN original THEN original[f] ELSE config[f]]

\* a block outside any temporary_config scope
BlockWith(block, config) ==
    [kind |-> "config", block |-> block, config |-> config, before |-> config,
     original |-> EmptyMap, pc |-> "outside", exit |-> "none"]

\* with block.temporary_config(**overrides): up to the yield.  LLMBlock copies
\* the config and calls update_config inside its try; EmbeddingBlock sets the
\* attributes one by one before its try.
temporary_config_enter(overrides) ==
    /\ llm.kind = "config"
    /\ llm.pc \in {"outside", "exited"}
    /\ llm' =
         IF llm.block = "LLMBlock"
         THEN LET variant == create_variant(llm.config, overrides)
              IN IF variant.exc = "none"
                 THEN [llm EXCEPT !.before = llm.config, !.original = llm.config,
                                  !.config = variant.config, !.pc = "inside",
                                  !.exit = "none"]
                 ELSE [llm EXCEPT !.before = llm.config, !.original = llm.config,
                                  !.config = llm.config, !.pc = "exited",
                                  !.exit = "apply_failed"]
         ELSE LET applied == apply_setattr(llm.config, overrides, EmptyMap)
              IN IF applied.exc = "none"
                 THEN [llm EXCEPT !.before = llm.config,
                                  !.original = applied.original,
                                  !.config = applied.config, !.pc = "inside",
                                  !.exit = "none"]
                 ELSE [llm EXCEPT !.before = llm.config,
                                  !.original = applied.original,
                                  !.config = applied.config, !.pc = "exited",
                                  !.exit = "apply_failed"]
    /\ LLMFrame

\* the scope ends, normally or by an exception raised inside it: the finally
\* clause runs
temporary_config_exit(how) ==
    /\ llm.kind = "config"
    /\ llm.pc = "inside"
    /\ llm' = [llm EXCEPT !.config = IF llm.block = "LLMBlock"
                                     THEN llm.original
                                     ELSE restore_saved(llm.config, llm.original),
                          !.pc = "exited", !.exit = how]
    /\ LLMFrame

-----------------------------------------------------------------------------
(* generate_structured_output of LLMBlock                                  *)

\* the longest reply of the provider, in tokens
MaxReplyLen == 5

\* A reply is a sequence of tokens: "x" is text that is no JSON, "m" is one
\* member "k": 1 of an object, the others are the brackets themselves.  The
\* replies carry no white space, so content.strip() leaves them as they are.
Tokens == {"x", "m", "{", "}", "[", "]"}

RECURSIVE TextsOf(_)
TextsOf(n) ==
    IF n = 0 THEN {<<>>}
    ELSE LET shorter == TextsOf(n - 1)
         IN shorter \cup {Append(t, c) : t \in {s \in shorter : Len(s) = n - 1},
                                         c \in Tokens}

\* what _call_with_retry gives back: None, or a response with a content
Replies ==
    {[kind |-> "failed", text |-> <<>>]}
        \cup {[kind |-> "content", text |-> t] : t \in TextsOf(MaxReplyLen)}

RECURSIVE value_end(_, _)
\* where the JSON object or array that starts at position i of the text ends,
\* 0 when none starts there: {} and {"k": 1} are the objects, [] and [value]
\* the arrays
value_end(text, i) ==
    IF i > Len(text) THEN 0
    ELSE IF text[i] = "{"
    THEN IF i + 1 <= Len(text) /\ text[i + 1] = "}" THEN i + 1
         ELSE IF i + 2 <= Len(text) /\ text[i + 1] = "m" /\ text[i + 2] = "}"
         THEN i + 2
         ELSE 0
    ELSE IF text[i] = "["
    THEN IF i + 1 <= Len(text) /\ text[i + 1] = "]" THEN i + 1
         ELSE LET e == value_end(text, i + 1)
              IN IF e # 0 /\ e + 1 <= Len(text) /\ text[e + 1] = "]"
                 THEN e + 1
                 ELSE 0
    ELSE 0

\* json.loads(text): the value when the whole text is one JSON value
json_loads(text) ==
    IF text # <<>> /\ value_end(text, 1) = Len(text)
    THEN [exc |-> "none", value |-> [kind |-> "json", tokens |-> text]]
    ELSE [exc |-> "JSONDecodeError", value |-> None]

\* the least element of a non-empty set of positions
Least(S) == CHOOSE i \in S : \A j \in S : i <= j

\* the first position from i on that holds a brace, 0 when there is none
next_brace(text, i) ==
    LET S == {j \in i..Len(text) : text[j] \in {"{", "}"}}
    IN IF S = {} THEN 0 ELSE Least(S)

RECURSIVE findall_simple(_, _)
\* re.findall(r"\{[^{}]*\}", text, re.DOTALL) from position from on: the
\* matches left to right, none overlapping the one before
findall_simple(text, from) ==
    LET S == {s \in from..Len(text) :
                /\ text[s] = "{"
                /\ next_brace(text, s + 1) # 0
                /\ text[next_brace(text, s + 1)] = "}"}
    IN IF S = {} THEN <<>>
       ELSE LET s == Least(S)
                e == next_brace(text, s + 1)
            IN <<SubSeq(text, s, e)>> \o findall_simple(text, e + 1)

RECURSIVE findall_shortest(_, _, _, _)
\* re.findall(r"\{.*?\}", text, re.DOTALL) and re.findall(r"\[.*?\]", ...):
\* from the first opening bracket that has a closing one after it, up to the
\* nearest closing one, then on from there
findall_shortest(text, from, open, close) ==
    LET S == {s \in from..Len(text) :
                /\ text[s] = open
                /\ \E j \in (s + 1)..Len(text) : text[j] = close}
    IN IF S = {} THEN <<>>
       ELSE LET s == Least(S)
                e == Least({j \in (s + 1)..Len(text) : text[j] = close})
            IN <<SubSeq(text, s, e)>> \o findall_shortest(text, e + 1, open, close)

\* the matches in the order _extract_json_from_text tries them: pattern by
\* pattern of json_patterns
matches_in_order(text) ==
    findall_simple(text, 1)
        \o findall_shortest(text, 1, "{", "}")
        \o findall_shortest(text, 1, "[", "]")

\* _extract_json_from_text(text): the first match json.loads accepts
extract_json_from_text(text) ==
    LET matches == matches_in_order(text)
        good == {n \in 1..Len(matches) : json_loads(matches[n]).exc = "none"}
    IN IF good = {} THEN None ELSE json_loads(matches[Least(good)]).value

\* generate_structured_output on a reply: what it returns
structured_output(reply) ==
    IF reply.kind = "failed" THEN None
    ELSE IF reply.text = <<>> THEN None
    ELSE LET whole == json_loads(reply.text)
         IN IF whole.exc = "none" THEN whole.value
            ELSE extract_json_from_text(reply.text)

\* a call of generate_structured_output about to be made
ParseCall(reply) ==
    [kind |-> "parse", reply |-> reply, pc |-> "calling", ret |-> None]

generate_structured_output ==
    /\ llm.kind = "parse"
    /\ llm.pc = "calling"
    /\ llm' = [llm EXCEPT !.pc = "returned", !.ret = structured_output(llm.reply)]
    /\ LLMFrame

-----------------------------------------------------------------------------
(* create_variant of LLMConfig and of EmbeddingConfig                      *)

ConfigClasses == {"LLMConfig", "EmbeddingConfig"}

\* the fields of a configuration class the model follows; extra_params is
\* declared by LLMConfig only
FieldsOf(cls) ==
    IF cls = "LLMConfig" THEN {"timeout", "api_key", "extra_params"}
    ELSE {"timeout", "api_key"}

\* values of api_key
ApiKeys == {"base-key", "variant-key"}

\* values of extra_params
ExtraParams == {EmptyMap, [seed |-> 1], [seed |-> 2]}

\* The objects of a create_variant call: the configuration and its
\* extra_params dict, the dict model_dump returns and the dict inside it, a
\* dict passed as an override, the new configuration and its extra_params dict
Objects ==
    {"config", "extra", "current_dict", "current_extra", "override_extra",
     "variant", "variant_extra"}

\* what a configuration object or a dict amounts to: its items, with the
\* extra_params dict it refers to in place of the reference
Deep(heap, obj) ==
    [f \in DOMAIN heap[obj] |->
        IF f = "extra_params" THEN heap[heap[obj][f]] ELSE heap[obj][f]]

\* a heap that holds one configuration of class cls
HeapWith(cls, timeout, api_key, extra_params) ==
    [o \in Objects |->
        IF o = "config"
        THEN IF cls = "LLMConfig"
             THEN [timeout |-> timeout, api_key |-> api_key,
                   extra_params |-> "extra"]
             ELSE [timeout |-> timeout, api_key |-> api_key]
        ELSE IF o = "extra" /\ cls = "LLMConfig" THEN extra_params
        ELSE EmptyMap]

\* one key=value of **overrides
VariantPairs ==
    {[key |-> "timeout", value |-> v] : v \in Timeouts}
        \cup {[key |-> "api_key", value |-> v] : v \in ApiKeys}
        \cup {[key |-> "extra_params", value |-> v] : v \in ExtraParams}
        \cup {[key |-> "zzz", value |-> 1]}

\* **overrides, in the order the call gives them
VariantOverrides ==
    {<<>>} \cup {<<p>> : p \in VariantPairs}
        \cup {o \in VariantPairs \X VariantPairs : o[1].key # o[2].key}

\* the dict update works on is the configuration's own attribute dict
config_model_dump_own_dict(heap, obj) == [heap |-> heap, dict |-> obj]

\* self.model_dump(): a new dict of the fields, the extra_params dict copied
config_model_dump(heap, obj) ==
    [heap |-> [heap EXCEPT
                 !["current_dict"] =
                     [f \in DOMAIN heap[obj] |->
                         IF f = "extra_params" THEN "current_extra"
                         ELSE heap[obj][f]],
                 !["current_extra"] =
                     IF "extra_params" \in DOMAIN heap[obj]
                     THEN heap[heap[obj]["extra_params"]]
                     ELSE EmptyMap],
     dict |-> "current_dict"]

RECURSIVE update(_, _, _)
\* current_dict.update(overrides): the items are set in the dict itself
update(heap, dict, overrides) ==
    IF overrides = <<>> THEN heap
    ELSE LET key == Head(overrides).key
             value == Head(overrides).value
         IN IF key = "extra_params"
            THEN update([heap EXCEPT ![dict] = Put(heap[dict], key, "override_extra"),
                                     !["override_extra"] = value],
                        dict, Tail(overrides))
            ELSE update([heap EXCEPT ![dict] = Put(heap[dict], key, value)],
                        dict, Tail(overrides))

\* LLMConfig declares timeout with gt=0, EmbeddingConfig without a constraint
validation_fails(cls, dict) == cls = "LLMConfig" /\ dict["timeout"] <= 0

\* LLMConfig(**current_dict) / EmbeddingConfig(**current_dict): a new object
\* with the declared fields, keys that are no fields ignored, the extra_params
\* dict copied by validation
construct(cls, heap, dict) ==
    IF validation_fails(cls, heap[dict])
    THEN [heap |-> heap, ret |-> Raise("ValidationError")]
    ELSE [heap |-> [heap EXCEPT
                      !["variant"] =
                          [f \in FieldsOf(cls) |->
                              IF f = "extra_params" THEN "variant_extra"
                              ELSE heap[dict][f]],
                      !["variant_extra"] =
                          IF cls = "LLMConfig"
                          THEN heap[heap[dict]["extra_params"]]
                          ELSE EmptyMap],
          ret |-> [kind |-> "config", obj |-> "variant"]]

\* a configuration on which create_variant is about to be called
VariantCall(cls, heap) ==
    [kind |-> "variant", cls |-> cls, heap |-> heap,
     before |-> Deep(heap, "config"), overrides |-> <<>>,
     pc |-> "calling", ret |-> None]

\* config.create_variant(**overrides)
create_variant_call(overrides) ==
    /\ llm.kind = "variant"
    /\ llm.pc = "calling"
    /\ LET dumped == config_model_dump(llm.heap, "config")
           updated == update(dumped.heap, dumped.dict, overrides)
           made == construct(llm.cls, updated, dumped.dict)
       IN llm' = [llm EXCEPT !.heap = made.heap, !.ret = made.ret,
                             !.overrides = overrides, !.pc = "returned"]
    /\ LLMFrame

-----------------------------------------------------------------------------
(* Setting._parse_config                                                   *)

\* the component sections, in the order of CONFIG_REGISTRY
ComponentNames == <<"source", "parser", "tagger", "storage">>

\* CONFIG_REGISTRY: the registered types of each component
CONFIG_REGISTRY ==
    [source |-> {"arxiv", "news", "web"},
     parser |-> {"pdf", "llama"},
     tagger |-> {"llm"},
     storage |-> {"local"}]

\* a section that is missing from the configuration
Absent == [kind |-> "absent"]

\* a section that is no mapping
NotADict == [kind |-> "not_a_dict"]

\* The sections a configuration can hold under a component name: none, a
\* value that is no mapping, or a mapping with a type (registered, not
\* registered, or missing, which get("type") gives as None) and a config the
\* class accepts or refuses
Sections(component_name) ==
    {Absent, NotADict}
        \cup [kind : {"dict"},
              type : CONFIG_REGISTRY[component_name] \cup {"bogus", "None"},
              config : {"valid", "invalid"}]

\* the configurations loaded
ConfigDicts ==
    {[source |-> so, parser |-> pa, tagger |-> ta, storage |-> st] :
        so \in Sections("source"), pa \in Sections("parser"),
        ta \in Sections("tagger"), st \in Sections("storage")}

\* an unknown type ends the load
on_unknown_type_raise(component_name) == "raise"

\* the else branch of "if component_type in type_registry": a warning is
\* logged and the loop goes on
on_unknown_type(component_name) == "warn"

RECURSIVE parse_components(_, _, _)
\* the loop over CONFIG_REGISTRY.items(): the components parsed, or the
\* exception that ends the loop
parse_components(config_dict, n, parsed) ==
    IF n > Len(ComponentNames) THEN [exc |-> "none", parsed |-> parsed]
    ELSE LET component_name == ComponentNames[n]
             component_data == config_dict[component_name]
         IN IF component_data.kind # "dict"
            THEN parse_components(config_dict, n + 1, parsed)
            ELSE IF component_data.type \in CONFIG_REGISTRY[component_name]
            THEN IF component_data.config = "invalid"
                 THEN [exc |-> "ValidationError", parsed |-> parsed]
                 ELSE parse_components(config_dict, n + 1,
                          Put(parsed, component_name, component_data.type))
            ELSE IF on_unknown_type(component_name) = "raise"
            THEN [exc |-> "ValueError", parsed |-> parsed]
            ELSE parse_components(config_dict, n + 1, parsed)

\* cls(**parsed): the components that were parsed, None for source, parser
\* and tagger when they were not, the default LocalStorageConfig for storage
SettingOf(parsed) ==
    [c \in {"source", "parser", "tagger", "storage"} |->
        IF c \in DOMAIN parsed THEN parsed[c]
        ELSE IF c = "storage" THEN "local" ELSE "None"]

\* _parse_config(config_dict): a Setting, or the exception
parse_config(config_dict) ==
    LET done == parse_components(config_dict, 1, EmptyMap)
    IN IF done.exc = "none"
       THEN [kind |-> "setting", setting |-> SettingOf(done.parsed)]
       ELSE Raise(done.exc)

\* a configuration about to be loaded
LoadCall(config_dict) ==
    [kind |-> "load", config_dict |-> config_dict, pc |-> "calling",
     ret |-> None]

load_config ==
    /\ llm.kind = "load"
    /\ llm.pc = "calling"
    /\ llm' = [llm EXCEPT !.pc = "returned", !.ret = parse_config(llm.config_dict)]
    /\ LLMFrame

-----------------------------------------------------------------------------
(* Setting._export_config                                                  *)

\* a dict of an exported configuration, and a value in it that is none
DictOf(items) == [kind |-> "dict", items |-> items]
Value(v) == [kind |-> "value", val |-> v]

\* the api_key a configuration holds: None, or a key
ApiKeyValues == {"None", "sk-1"}

\* An LLMConfig, of which the model follows model and api_key
LLMConfigs == [model : {"gpt-4o"}, api_key : ApiKeyValues]

\* the components of a Setting: None, or the type registered for the class
\* and the fields of the object.  A tagger and a flow hold an LLMConfig in
\* llm_config; the llama parser holds an api_key of its own.
NoComponent == [type |-> "None"]

Sources == {NoComponent, [type |-> "arxiv"]}

Parsers ==
    {NoComponent, [type |-> "pdf"]}
        \cup {[type |-> "llama", api_key |-> k] : k \in ApiKeyValues}

Taggers ==
    {NoComponent} \cup {[type |-> "llm", llm_config |-> c] : c \in LLMConfigs}

FlowConfigs ==
    {NoComponent} \cup {[type |-> "summary", llm_config |-> c] : c \in LLMConfigs}

Settings ==
    [source : Sources, parser : Parsers, tagger : Taggers,
     summary_flow : FlowConfigs, llm : LLMConfigs]

\* the items of a dict without those none has a value for
OnlySet(items) == [k \in {x \in DOMAIN items : items[x] # Value("None")} |-> items[k]]

\* LLMConfig.model_dump(exclude_none=True), as part of the dump of the
\* configuration that holds it
llm_config_dump(config) ==
    DictOf(OnlySet([model |-> Value(config.model),
                    api_key |-> Value(config.api_key)]))

\* component.model_dump(exclude_none=True)
component_dump(component) ==
    IF component.type = "llama"
    THEN OnlySet([result_type |-> Value("markdown"),
                  api_key |-> Value(component.api_key)])
    ELSE IF component.type \in {"llm", "summary"}
    THEN [llm_config |-> llm_config_dump(component.llm_config)]
    ELSE EmptyMap

\* config_dict.pop("api_key", None)
pop_api_key(config_dict) ==
    [k \in DOMAIN config_dict \ {"api_key"} |-> config_dict[k]]

\* serialize_component(component, component_type_map)
serialize_component(component) ==
    IF component.type = "None" THEN Value("None")
    ELSE DictOf([type |-> Value(component.type),
                 config |-> DictOf(pop_api_key(component_dump(component)))])

\* what is truthy of what serialize_component returns
serialized(component) == serialize_component(component) # Value("None")

\* self.llm.model_dump(exclude={"api_key"})
llm_dump(config) == DictOf([model |-> Value(config.model)])

\* _export_config(): the dict written by save_to_yaml
export_config(setting) ==
    LET components == {c \in {"source", "parser", "tagger"} : serialized(setting[c])}
        flows ==
            IF serialized(setting.summary_flow)
            THEN [flows |-> DictOf([summary_flow |->
                                      serialize_component(setting.summary_flow)])]
            ELSE EmptyMap
    IN DictOf([c \in components |-> serialize_component(setting[c])]
                @@ flows
                @@ [llm |-> llm_dump(setting.llm), log_level |-> Value("INFO")])

\* a Setting about to be saved
ExportCall(setting) ==
    [kind |-> "export", setting |-> setting, pc |-> "calling", ret |-> None]

save_to_yaml ==
    /\ llm.kind = "export"
    /\ llm.pc = "calling"
    /\ llm' = [llm EXCEPT !.pc = "returned", !.ret = export_config(llm.setting)]
    /\ LLMFrame

-----------------------------------------------------------------------------
(* BaseFlow._call_llm and SummaryFlow.execute                              *)

\* the most calls of generate_text the model follows on one flow
MaxFlowCalls == 2

\* config.output_format of a SummaryFlowConfig
OutputFormats == {"structured", "bullet_points", "narrative"}

\* a string an LLM returned
Str(s) == [kind |-> "str", val |-> s]

\* What llm_block.generate_text does: it returns None, it raises, or it
\* returns a string: the empty one, prose, a JSON object, a JSON array
GenerateTextOutcomes ==
    {None, Raise("Exception")}
        \cup {Str(s) : s \in {"", "prose", "json_object", "json_array"}}

\* the except clause passes the exception on
call_llm_reraise(exc) == Raise(exc)

\* except Exception as e: logger.error(...); return None
call_llm_except(exc) == None

\* _call_llm(prompt) on a flow whose llm_block is block, when generate_text
\* does outcome
call_llm(block, outcome) ==
    IF block = "None" THEN None
    ELSE IF outcome.kind = "raise" THEN call_llm_except(outcome.exc)
    ELSE outcome

\* "not response"
falsy(response) == response = None \/ response = Str("")

\* _parse_structured_response, _parse_bullet_points_response and
\* _parse_narrative_response: the exception the parse of a response ends in,
\* "none" when it gives the summary data.  A structured response that is
\* JSON but no object fails in data[field] = "" with TypeError, one that is
\* no JSON is parsed as narrative.
parse_response_exc(output_format, response) ==
    IF output_format = "structured" /\ response = Str("json_array")
    THEN "TypeError"
    ELSE "none"

\* _create_error_result(error_message)
create_error_result(error_message) ==
    [kind |-> "result", error |-> TRUE, error_message |-> error_message]

\* the summary data execute returns
summary_data(output_format) ==
    [kind |-> "result", error |-> FALSE, error_message |-> output_format]

\* SummaryFlow.execute(knowledge_item) from the call of the LLM on
execute_result(block, output_format, outcome) ==
    LET response == call_llm(block, outcome)
    IN IF response.kind = "raise" THEN response
       ELSE IF falsy(response)
       THEN create_error_result("Failed to generate summary")
       ELSE IF parse_response_exc(output_format, response) # "none"
       THEN create_error_result("Failed to parse summary")
       ELSE summary_data(output_format)

\* config.custom_build_prompt: None, a function that returns a prompt, a
\* function that raises
CustomBuildPrompts == {"None", "returns", "raises"}

\* build_prompt(knowledge_item): the prompt of the custom function, the one
\* built from the template, or the fallback prompt when the custom function
\* raises
build_prompt(custom_build_prompt) ==
    IF custom_build_prompt = "returns" THEN "custom"
    ELSE IF custom_build_prompt = "raises" THEN "fallback"
    ELSE "template"

\* a SummaryFlow that is not constructed yet
NewFlow(output_format, custom_build_prompt) ==
    [kind |-> "flow", output_format |-> output_format,
     custom_build_prompt |-> custom_build_prompt, pc |-> "new",
     llm_block |-> "None", calls |-> 0, op |-> "none", prompt |-> "none",
     outcome |-> None, ret |-> None]

\* BaseFlow.__init__: create_llm_block gives the block, or raises and the
\* flow is left with llm_block = None
BaseFlow_init(create_raises) ==
    /\ llm.kind = "flow"
    /\ llm.pc = "new"
    /\ llm' = [llm EXCEPT !.pc = "ready",
                          !.llm_block = IF create_raises THEN "None"
                                        ELSE "LLMBlock"]
    /\ LLMFrame

\* what a call on the flow leaves: generate_text was invoked only when there
\* is a block
AfterCall(op, prompt, outcome, ret) ==
    [llm EXCEPT !.op = op, !.ret = ret, !.prompt = prompt,
                !.outcome = IF llm.llm_block = "None" THEN None ELSE outcome,
                !.calls = IF llm.llm_block = "None" THEN @ ELSE @ + 1]

\* flow._call_llm(prompt)
BaseFlow_call_llm(outcome) ==
    /\ llm.kind = "flow"
    /\ llm.pc = "ready"
    /\ llm.calls < MaxFlowCalls
    /\ llm' = AfterCall("_call_llm", "Test prompt", outcome, call_llm(llm.llm_block, outcome))
    /\ LLMFrame

\* flow.execute(knowledge_item)
SummaryFlow_execute(outcome) ==
    /\ llm.kind = "flow"
    /\ llm.pc = "ready"
    /\ llm.calls < MaxFlowCalls
    /\ llm' = AfterCall("execute", build_prompt(llm.custom_build_prompt), outcome,
                        execute_result(llm.llm_block, llm.output_format, outcome))
    /\ LLMFrame

-----------------------------------------------------------------------------
(* get_all_knowledges                                                      *)

\* the orders in which a dict can hold the keys S
Orders(S) ==
    {s \in [1..Cardinality(S) -> S] : \A i, j \in 1..Cardinality(S) :
                                          s[i] = s[j] => i = j}

RECURSIVE iterate_knowledges(_, _, _, _)
\* for knowledge_id in self._knowledges_index.keys(): the iterator over the
\* keys raises RuntimeError when asked for the next key after the dict has
\* changed its size; get_knowledge deletes the entry of a missing file from
\* that dict.  Gives the items yielded, the index left and how it ended.
iterate_knowledges(keys, n, index, yielded) ==
    IF Cardinality(DOMAIN index) # Len(keys)
    THEN [items |-> yielded, index |-> index, exc |-> "RuntimeError"]
    ELSE IF n > Len(keys)
    THEN [items |-> yielded, index |-> index, exc |-> "none"]
    ELSE IF path_exists(index[keys[n]].path)
    THEN LET knowledge == read_knowledge(knowledges_dir[index[keys[n]].path.name])
         IN iterate_knowledges(keys, n + 1, index,
                IF knowledge = None THEN yielded
                ELSE Append(yielded, knowledge.item))
    ELSE iterate_knowledges(keys, n + 1, prune_entry(index, keys[n]), yielded)

\* list(storage.get_all_knowledges()): the generator run to its end
get_all_knowledges ==
    /\ up
    /\ \E keys \in Orders(DOMAIN knowledges_index) :
         LET r == iterate_knowledges(keys, 1, knowledges_index, <<>>)
         IN /\ knowledges_index' = r.index
            /\ extra_dir' = IF r.index # knowledges_index
                            THEN save_index(extra_dir, "knowledges", r.index)
                            ELSE extra_dir
            /\ last' = Last("get_all_knowledges", <<>>, NoArg,
                            [kind |-> "iterated", items |-> r.items,
                             exc |-> r.exc],
                            IF r.exc = "none" THEN "exhausted" ELSE "raised")
    /\ UNCHANGED <<others, up, raw_files_dir, knowledges_dir, embeddings_dir,
                   raw_files_index, embeddings_index>>

-----------------------------------------------------------------------------
(* The extra namespace                                                     *)

\* Keys of store_extra, get_extra and delete_extra, as names: "notes", and
\* the keys "knowledges_index" and "raw_files_index", for which f"{key}.json"
\* is the name of an index file
ExtraKeys == {<<"notes">>, <<"knowledges", "_index">>, <<"raw_files", "_index">>}

\* the data stored: an empty dict, a dict with one item
ExtraData ==
    {EmptyMap,
     (<<"x">> :> [path |-> RelPath("knowledges", json_name(<<"x">>))])}

\* self.config.extra_dir / f"{key}.json"
extra_path(key) == key \o <<Dot, "json">>

\* store_extra(key, data)
store_extra(key, data) ==
    /\ up
    /\ extra_dir' = Put(extra_dir, extra_path(key), Json(data))
    /\ last' = Last("store_extra", key, DataRet(data), IdRet(key), "stored")
    /\ UNCHANGED <<others, up, raw_files_dir, knowledges_dir, embeddings_dir,
                   raw_files_index, knowledges_index, embeddings_index>>

\* get_extra(key)
get_extra(key) ==
    /\ up
    /\ last' = Last("get_extra", key, NoArg,
                    IF extra_path(key) \in DOMAIN extra_dir
                       /\ extra_dir[extra_path(key)].kind = "json"
                    THEN DataRet(extra_dir[extra_path(key)].data)
                    ELSE None,
                    "read")
    /\ UNCHANGED <<others, up, raw_files_dir, knowledges_dir, embeddings_dir,
                   extra_dir, raw_files_index, knowledges_index,
                   embeddings_index>>

\* delete_extra(key)
delete_extra(key) ==
    /\ up
    /\ IF extra_path(key) \in DOMAIN extra_dir
       THEN /\ extra_dir' = Remove(extra_dir, extra_path(key))
            /\ last' = Last("delete_extra", key, NoArg, BoolRet(TRUE), "deleted")
       ELSE /\ extra_dir' = extra_dir
            /\ last' = Last("delete_extra", key, NoArg, BoolRet(FALSE), "absent")
    /\ UNCHANGED <<others, up, raw_files_dir, knowledges_dir, embeddings_dir,
                   raw_files_index, knowledges_index, embeddings_index>>

-----------------------------------------------------------------------------
(* Raw files under IDs of which one begins with the other and a dot        *)

\* the file IDs "a" and "a.b"
DottedFileIds == {<<"a">>, <<"a", Dot, "b">>}

-----------------------------------------------------------------------------
(* EmbeddingBlock._call_with_retry                                         *)

\* the keys of params besides "input": none, or "model", which
\* get_litellm_params always gives
EmbeddingParams == {{"input"}, {"input", "model"}}

\* an EmbeddingBlock about to enter _call_with_retry(params) with a provider
\* that raises on its first fails calls
EmbeddingRetryCall(retry_attempts, retry_delay, fails, params) ==
    [kind |-> "embedding_retry", retry_attempts |-> retry_attempts,
     retry_delay |-> retry_delay, fails |-> fails, params |-> params,
     attempt |-> 0, calls |-> 0, sleeps |-> <<>>, pc |-> "call",
     exc |-> "none", ret |-> None]

\* The try block of one pass: input_text = params.pop("input"), then
\* embedding(model=self.config.model, input=input_text, **params).  The pop
\* raises KeyError when an earlier pass has taken "input" out of params; the
\* call raises TypeError, before the provider is entered, when params holds
\* "model" as well; else the provider is invoked and raises or answers.
embedding_try(params, calls_before, fails) ==
    IF "input" \notin params
    THEN [exc |-> "KeyError", params |-> params, invoked |-> FALSE]
    ELSE IF "model" \in params \ {"input"}
    THEN [exc |-> "TypeError", params |-> params \ {"input"}, invoked |-> FALSE]
    ELSE IF completion_raises(calls_before, fails)
    THEN [exc |-> "Exception", params |-> params \ {"input"}, invoked |-> TRUE]
    ELSE [exc |-> "none", params |-> params \ {"input"}, invoked |-> TRUE]

\* one pass of the loop body
embedding_call_with_retry_attempt ==
    /\ llm.kind = "embedding_retry"
    /\ llm.pc = "call"
    /\ llm.attempt < llm.retry_attempts + 1
    /\ LET try == embedding_try(llm.params, llm.calls, llm.fails)
           after == [llm EXCEPT !.params = try.params, !.exc = try.exc,
                                !.calls = IF try.invoked THEN @ + 1 ELSE @]
       IN llm' = IF try.exc = "none"
                 THEN [after EXCEPT !.pc = "returned",
                                    !.ret = [kind |-> "response"]]
                 ELSE IF llm.attempt < llm.retry_attempts
                 THEN [after EXCEPT !.pc = "sleep"]
                 ELSE [after EXCEPT !.attempt = @ + 1]
    /\ LLMFrame

\* time.sleep(self.config.retry_delay), then the next pass
embedding_call_with_retry_sleep ==
    /\ llm.kind = "embedding_retry"
    /\ llm.pc = "sleep"
    /\ llm' = [llm EXCEPT !.sleeps = Append(@, llm.retry_delay),
                          !.attempt = @ + 1, !.pc = "call"]
    /\ LLMFrame

\* the loop is over without a response: return None
embedding_call_with_retry_exhausted ==
    /\ llm.kind = "embedding_retry"
    /\ llm.pc = "call"
    /\ ~(llm.attempt < llm.retry_attempts + 1)
    /\ llm' = [llm EXCEPT !.pc = "returned", !.ret = None]
    /\ LLMFrame

-----------------------------------------------------------------------------
(* LLMBlock._setup_litellm and the process environment                     *)

\* the environment variables _setup_litellm writes
EnvVars ==
    {"OPENAI_API_KEY", "ANTHROPIC_API_KEY", "GOOGLE_API_KEY", "DEEPSEEK_API_KEY"}

\* values of config.model, one for each provider _setup_litellm knows and one
\* for none of them
ModelNames == {"gpt-4o", "claude-3", "gemini-pro", "deepseek-chat", "llama3"}

\* LLMConfig.get_provider_type()
get_provider_type(model) ==
    CASE model = "gpt-4o" -> "openai"
      [] model = "claude-3" -> "anthropic"
      [] model = "gemini-pro" -> "google"
      [] model = "deepseek-chat" -> "deepseek"
      [] OTHER -> "unknown"

\* the variable _setup_litellm writes for a provider type, "none" for a
\* provider it has no branch for
env_var_of(provider_type) ==
    CASE provider_type = "openai" -> "OPENAI_API_KEY"
      [] provider_type = "anthropic" -> "ANTHROPIC_API_KEY"
      [] provider_type = "google" -> "GOOGLE_API_KEY"
      [] provider_type = "deepseek" -> "DEEPSEEK_API_KEY"
      [] OTHER -> "none"

\* _setup_litellm(): os.environ after it, with config.api_key written to the
\* variable of the provider when the key is set
setup_litellm(config, environ) ==
    IF config.api_key # "None" /\ env_var_of(get_provider_type(config.model)) # "none"
    THEN [environ EXCEPT ![env_var_of(get_provider_type(config.model))] =
                             config.api_key]
    ELSE environ

\* the configurations of a block: a model, and an api_key or None
KeyedConfigs == [model : {"gpt-4o", "claude-3"}, api_key : {"None", "base-key"}]

\* os.environ when the block is constructed: each variable unset or set
Environs == [EnvVars -> {"unset", "env-key"}]

\* the overrides of a temporary_config scope that name api_key, model or both
KeyedOverrides ==
    {(f :> v) : f \in {"api_key"}, v \in {"tmp-key"}}
        \cup {(f :> v) : f \in {"model"}, v \in ModelNames}
        \cup {[api_key |-> "tmp-key", model |-> m] : m \in ModelNames}

\* config.create_variant(**kwargs) on the two fields
keyed_variant(config, kwargs) ==
    [f \in DOMAIN config |-> IF f \in DOMAIN kwargs THEN kwargs[f] ELSE config[f]]

\* LLMBlock(config) constructed in a process with the environment environ:
\* __init__ runs _setup_litellm
KeyedBlock(config, environ) ==
    [kind |-> "environ", config |-> config,
     environ |-> setup_litellm(config, environ),
     original_config |-> config,
     environ_before |-> setup_litellm(config, environ),
     kwargs |-> EmptyMap, pc |-> "outside", exit |-> "none"]

\* with block.temporary_config(**kwargs): up to the yield: the config is
\* copied, update_config sets the variant and runs _setup_litellm
LLMBlock_temporary_config_enter(kwargs) ==
    /\ llm.kind = "environ"
    /\ llm.pc \in {"outside", "exited"}
    /\ LET variant == keyed_variant(llm.config, kwargs)
       IN llm' = [llm EXCEPT !.original_config = llm.config,
                             !.environ_before = llm.environ,
                             !.kwargs = kwargs,
                             !.config = variant,
                             !.environ = setup_litellm(variant, llm.environ),
                             !.pc = "inside"]
    /\ LLMFrame

\* the scope ends, normally or by an exception: the finally clause sets the
\* copied config and runs _setup_litellm
LLMBlock_temporary_config_exit(how) ==
    /\ llm.kind = "environ"
    /\ llm.pc = "inside"
    /\ llm' = [llm EXCEPT !.config = llm.original_config,
                          !.environ = setup_litellm(llm.original_config,
                                                    llm.environ),
                          !.pc = "exited", !.exit = how]
    /\ LLMFrame

-----------------------------------------------------------------------------
(* Changes made to the storage directory from outside the program          *)

External == Last("external", <<>>, NoArg, None, "external")

\* the names store_raw_file gives the files of the model's IDs
RawFileNames ==
    {id \o normalize_extension(e) : id \in FileIds, e \in FileExtensions}
        \cup {id \o suffix(f.name) : id \in FileIds, f \in SourceFiles}

ExternalUnlinkRaw(name) ==
    /\ name \in RawNames
    /\ raw_files_dir' = RawUnlink(raw_files_dir, name)
    /\ last' = External
    /\ UNCHANGED <<others, up, knowledges_dir, embeddings_dir, extra_dir,
                   raw_files_index, knowledges_index, embeddings_index>>

ExternalCreateRaw(name, data) ==
    /\ name \notin RawNames
    /\ \E pos \in RawPositions(name) :
         raw_files_dir' = RawWrite(raw_files_dir, name, data, pos)
    /\ last' = External
    /\ UNCHANGED <<others, up, knowledges_dir, embeddings_dir, extra_dir,
                   raw_files_index, knowledges_index, embeddings_index>>

ExternalUnlinkKnowledge(name) ==
    /\ name \in DOMAIN knowledges_dir
    /\ knowledges_dir' = Remove(knowledges_dir, name)
    /\ last' = External
    /\ UNCHANGED <<others, up, raw_files_dir, embeddings_dir, extra_dir,
                   raw_files_index, knowledges_index, embeddings_index>>

ExternalCreateKnowledge(knowledge) ==
    /\ json_name(get_primary_id(knowledge)) \notin DOMAIN knowledges_dir
    /\ knowledges_dir' = Put(knowledges_dir, json_name(get_primary_id(knowledge)),
                             Json(model_dump(knowledge)))
    /\ last' = External
    /\ UNCHANGED <<others, up, raw_files_dir, embeddings_dir, extra_dir,
                   raw_files_index, knowledges_index, embeddings_index>>

ExternalUnlinkEmbedding(name) ==
    /\ name \in DOMAIN embeddings_dir
    /\ embeddings_dir' = Remove(embeddings_dir, name)
    /\ last' = External
    /\ UNCHANGED <<others, up, raw_files_dir, knowledges_dir, extra_dir,
                   raw_files_index, knowledges_index, embeddings_index>>

ExternalCreateEmbedding(knowledge_id, embedding, model) ==
    /\ json_name(knowledge_id) \notin DOMAIN embeddings_dir
    /\ embeddings_dir' = Put(embeddings_dir, json_name(knowledge_id),
                             Json(embedding_data(knowledge_id, embedding, model)))
    /\ last' = External
    /\ UNCHANGED <<others, up, raw_files_dir, knowledges_dir, extra_dir,
                   raw_files_index, knowledges_index, embeddings_index>>

\* an index file removed while no LocalStorage is alive
ExternalRemoveIndexFile(index_type) ==
    /\ ~up
    /\ get_index_path(index_type) \in DOMAIN extra_dir
    /\ extra_dir' = Remove(extra_dir, get_index_path(index_type))
    /\ last' = External
    /\ UNCHANGED <<others, up, raw_files_dir, knowledges_dir, embeddings_dir,
                   raw_files_index, knowledges_index, embeddings_index>>

\* an index file damaged while no LocalStorage is alive
ExternalCorruptIndexFile(index_type) ==
    /\ ~up
    /\ get_index_path(index_type) \in DOMAIN extra_dir
    /\ extra_dir[get_index_path(index_type)] # Corrupt
    /\ extra_dir' = Put(extra_dir, get_index_path(index_type), Corrupt)
    /\ last' = External
    /\ UNCHANGED <<others, up, raw_files_dir, knowledges_dir, embeddings_dir,
                   raw_files_index, knowledges_index, embeddings_index>>

-----------------------------------------------------------------------------
(* The store                                                               *)

Models == {"m1"}

\* a LocalStorage constructed on an empty storage directory
StoreInit ==
    /\ up = TRUE
    /\ raw_files_dir = <<>>
    /\ knowledges_dir = EmptyMap
    /\ embeddings_dir = EmptyMap
    /\ raw_files_index = EmptyMap
    /\ knowledges_index = EmptyMap
    /\ embeddings_index = EmptyMap
    /\ extra_dir = [p \in {get_index_path(t) : t \in IndexTypes} |-> Json(EmptyMap)]
    /\ last = [Last("__init__", <<>>, NoArg, None, "loaded")
                  EXCEPT !.rebuilt = IndexTypes]

\* no thread inside an operation, nothing downloaded, no LLM block in use
OthersInit ==
    /\ threads = [t \in Threads |-> Idle]
    /\ download_timeout = DEFAULT_DOWNLOAD_TIMEOUT
    /\ requests = <<>>
    /\ llm = None

Init == StoreInit /\ OthersInit

\* the operations of the API, and the construction of a LocalStorage
NextApi ==
    \/ LocalStorage_init
    \/ rebuild_all_indexes
    \/ \E id \in FileIds, f \in SourceFiles \cup {None},
          c \in FileContents \cup {None}, e \in FileExtensions :
            store_raw_file(id, f, c, e)
    \/ \E id \in FileIds : get_raw_file(id)
    \/ \E id \in FileIds : delete_raw_file(id)
    \/ \E k \in KnowledgeItems : store_knowledge(k)
    \/ \E id \in KnowledgeIds : get_knowledge(id)
    \/ \E id \in KnowledgeIds : delete_knowledge(id)
    \/ \E id \in KnowledgeIds, v \in Vectors, m \in Models :
            store_embedding(id, v, m)
    \/ \E id \in KnowledgeIds : get_embedding(id)
    \/ \E id \in KnowledgeIds : delete_embedding(id)

\* what happens around the API: the process ends, files change on disk
NextExternal ==
    \/ Shutdown
    \/ \E n \in RawFileNames : ExternalUnlinkRaw(n)
    \/ \E n \in RawFileNames, b \in Contents : ExternalCreateRaw(n, Bytes(b))
    \/ \E id \in KnowledgeIds : ExternalUnlinkKnowledge(json_name(id))
    \/ \E k \in KnowledgeItems : ExternalCreateKnowledge(k)
    \/ \E id \in KnowledgeIds : ExternalUnlinkEmbedding(json_name(id))
    \/ \E id \in KnowledgeIds, v \in Vectors, m \in Models :
            ExternalCreateEmbedding(id, v, m)
    \/ \E t \in IndexTypes : ExternalRemoveIndexFile(t)
    \/ \E t \in IndexTypes : ExternalCorruptIndexFile(t)

Next == NextApi \/ NextExternal

Spec == Init /\ [][Next]_vars

\* the store with, in addition, stores cut short by the process being killed
NextKilled ==
    \/ Next
    \/ \E k \in KnowledgeItems, pt \in KillPoints : store_knowledge_killed(k, pt)
    \/ \E id \in FileIds, b \in Contents, e \in FileExtensions, pt \in KillPoints :
            store_raw_file_killed(id, Bytes(b), e, pt)
    \/ \E id \in KnowledgeIds, v \in Vectors, m \in Models, pt \in KillPoints :
            store_embedding_killed(id, v, m, pt)

SpecKilled == Init /\ [][NextKilled]_vars

\* the store used through its API alone, nothing else touching the directory
SpecApi == Init /\ [][NextApi]_vars

\* the API on a disk that may refuse a write
NextWriteFails ==
    \/ NextApi
    \/ \E k \in KnowledgeItems, w \in WriteFailures :
            store_knowledge_write_fails(k, w)
    \/ \E id \in FileIds, b \in Contents, e \in FileExtensions,
          w \in WriteFailures :
            store_raw_file_write_fails(id, Bytes(b), e, w)
    \/ \E id \in KnowledgeIds, v \in Vectors, m \in Models, w \in WriteFailures :
            store_embedding_write_fails(id, v, m, w)

SpecWriteFails == Init /\ [][NextWriteFails]_vars

\* a LocalStorage constructed with some download_timeout on an empty directory
ProcessInit ==
    /\ StoreInit
    /\ threads = [t \in Threads |-> Idle]
    /\ download_timeout \in DownloadTimeouts
    /\ requests = <<>>
    /\ llm = None

\* items processed, their raw files stored, read and deleted through the API
\* or removed from outside
NextProcess ==
    \/ \E k \in ProcessItems, r \in Responses, w \in {"none", "data"} :
            process_knowledge(k, r, w)
    \/ \E id \in KnowledgeIds, b \in Contents :
            store_raw_file(id, None, Bytes(b), <<Dot, "t">>)
    \/ \E id \in KnowledgeIds : get_raw_file(id)
    \/ \E id \in KnowledgeIds : delete_raw_file(id)
    \/ \E id \in KnowledgeIds : get_knowledge(id)
    \/ \E id \in KnowledgeIds : delete_knowledge(id)
    \/ \E id \in KnowledgeIds : ExternalUnlinkRaw(id \o <<Dot, "pdf">>)

SpecProcess == ProcessInit /\ [][NextProcess]_vars

\* the state around an LLM block
AroundLLM ==
    /\ StoreInit
    /\ threads = [t \in Threads |-> Idle]
    /\ download_timeout = DEFAULT_DOWNLOAD_TIMEOUT
    /\ requests = <<>>

RetryInit ==
    /\ AroundLLM
    /\ llm \in {RetryCall(m, d, n) : m \in 0..MaxRetryAttempts,
                                     d \in RetryDelays, n \in 0..MaxFailures}

NextRetry ==
    \/ call_with_retry_attempt
    \/ call_with_retry_sleep
    \/ call_with_retry_exhausted

\* _call_with_retry against a provider that fails a number of times first
SpecRetry == RetryInit /\ [][NextRetry]_vars

ConfigInit ==
    /\ AroundLLM
    /\ llm \in {BlockWith(b, c) : b \in Blocks, c \in Configs}

NextConfig ==
    \/ \E o \in Overrides : temporary_config_enter(o)
    \/ \E how \in {"normal", "exception"} : temporary_config_exit(how)

\* temporary_config scopes entered and left on an LLMBlock or an EmbeddingBlock
SpecConfig == ConfigInit /\ [][NextConfig]_vars

ParseInit ==
    /\ AroundLLM
    /\ llm \in {ParseCall(r) : r \in Replies}

NextParse == generate_structured_output

\* generate_structured_output on every reply of up to MaxReplyLen tokens
SpecParse == ParseInit /\ [][NextParse]_vars

VariantInit ==
    /\ AroundLLM
    /\ llm \in {VariantCall(cls, HeapWith(cls, t, k, e)) :
                    cls \in ConfigClasses, t \in Timeouts \ {0},
                    k \in ApiKeys, e \in ExtraParams}

NextVariant == \E o \in VariantOverrides : create_variant_call(o)

\* create_variant called once on a configuration of either class
SpecVariant == VariantInit /\ [][NextVariant]_vars

LoadInit ==
    /\ AroundLLM
    /\ llm \in {LoadCall(d) : d \in ConfigDicts}

NextLoad == load_config

\* _parse_config on every combination of component sections
SpecLoad == LoadInit /\ [][NextLoad]_vars

ExportInit ==
    /\ AroundLLM
    /\ llm \in {ExportCall(s) : s \in Settings}

NextExport == save_to_yaml

\* save_to_yaml on every Setting of the model
SpecExport == ExportInit /\ [][NextExport]_vars

FlowInit ==
    /\ AroundLLM
    /\ llm \in {NewFlow(f, c) : f \in OutputFormats, c \in CustomBuildPrompts}

NextFlow ==
    \/ \E create_raises \in BOOLEAN : BaseFlow_init(create_raises)
    \/ \E outcome \in GenerateTextOutcomes : BaseFlow_call_llm(outcome)
    \/ \E outcome \in GenerateTextOutcomes : SummaryFlow_execute(outcome)

\* a SummaryFlow constructed and called while its LLM block fails or answers
SpecFlow == FlowInit /\ [][NextFlow]_vars

NextIterate == Next \/ get_all_knowledges

\* the store, with get_all_knowledges run to its end
SpecIterate == Init /\ [][NextIterate]_vars

NextExtra ==
    \/ LocalStorage_init
    \/ \E k \in KnowledgeItems : store_knowledge(k)
    \/ \E id \in KnowledgeIds : get_knowledge(id)
    \/ \E id \in KnowledgeIds : delete_knowledge(id)
    \/ \E key \in ExtraKeys, data \in ExtraData : store_extra(key, data)
    \/ \E key \in ExtraKeys : get_extra(key)
    \/ \E key \in ExtraKeys : delete_extra(key)

\* knowledge items and extra data kept in one store
SpecExtra == Init /\ [][NextExtra]_vars

NextRaw ==
    \/ \E id \in DottedFileIds, c \in FileContents,
          e \in FileExtensions :
            store_raw_file(id, None, c, e)
    \/ \E id \in DottedFileIds : get_raw_file(id)
    \/ \E id \in DottedFileIds : delete_raw_file(id)

\* raw files stored, looked up and deleted under the IDs "a" and "a.b"
SpecRaw == Init /\ [][NextRaw]_vars

EmbeddingRetryInit ==
    /\ AroundLLM
    /\ llm \in {EmbeddingRetryCall(m, d, n, p) :
                    m \in 0..MaxRetryAttempts, d \in RetryDelays,
                    n \in 0..MaxFailures, p \in EmbeddingParams}

NextEmbeddingRetry ==
    \/ embedding_call_with_retry_attempt
    \/ embedding_call_with_retry_sleep
    \/ embedding_call_with_retry_exhausted

\* EmbeddingBlock._call_with_retry against a provider that fails a number of
\* times first
SpecEmbeddingRetry == EmbeddingRetryInit /\ [][NextEmbeddingRetry]_vars

EnvironInit ==
    /\ AroundLLM
    /\ llm \in {KeyedBlock(c, e) : c \in KeyedConfigs, e \in Environs}

NextEnviron ==
    \/ \E kwargs \in KeyedOverrides : LLMBlock_temporary_config_enter(kwargs)
    \/ \E how \in {"normal", "exception"} : LLMBlock_temporary_config_exit(how)

\* temporary_config scopes on an LLMBlock that override api_key or model
SpecEnviron == EnvironInit /\ [][NextEnviron]_vars

\* two threads storing and deleting knowledge items on one LocalStorage
NextThreads ==
    \/ \E t \in Threads, id \in ThreadIds : thread_store_knowledge(t, Paper(id, "T1"))
    \/ \E t \in Threads, id \in ThreadIds : thread_delete_knowledge(t, id)
    \/ \E t \in Threads : thread_update_index(t)
    \/ \E t \in Threads : thread_del_entry(t)
    \/ \E t \in Threads : thread_save_index_open(t)
    \/ \E t \in Threads : thread_save_index_dump(t)
    \/ \E t \in Threads : thread_save_index_close(t)

SpecThreads == Init /\ [][NextThreads]_vars


-----------------------------------------------------------------------------
(* Properties                                                              *)

IndexFileOf(index_type) == extra_dir[get_index_path(index_type)]

IndexFilesMatch ==
    /\ \A t \in IndexTypes : get_index_path(t) \in DOMAIN extra_dir
    /\ IndexFileOf("raw_files") = Json(raw_files_index)
    /\ IndexFileOf("knowledges") = Json(knowledges_index)
    /\ IndexFileOf("embeddings") = Json(embeddings_index)

\* C1: write-through index.  Whenever an operation of a live LocalStorage has
\* returned, each of the three index files holds exactly the in-memory index,
\* and a LocalStorage constructed then on the same directory loads the same
\* three indexes.
C1_WriteThrough ==
    /\ [](up => IndexFilesMatch)
    /\ [][(up /\ LocalStorage_init) =>
             UNCHANGED <<raw_files_index, knowledges_index, embeddings_index,
                         extra_dir>>]_vars

\* a LocalStorage constructed on a directory that holds raw files, knowledge
\* items and embeddings has loaded its three indexes from the index files
C1_Witness ==
    /\ last.op = "__init__"
    /\ last.rebuilt = {}
    /\ raw_files_index # EmptyMap
    /\ knowledges_index # EmptyMap
    /\ embeddings_index # EmptyMap

StaleIn(index, id) == id \in DOMAIN index /\ ~path_exists(index[id].path)

Pruned(index_type, index_after, extra_after, id) ==
    /\ id \notin DOMAIN index_after
    /\ extra_after[get_index_path(index_type)].kind = "json"
    /\ id \notin DOMAIN extra_after[get_index_path(index_type)].data

\* C2: self-healing.  A get for an ID whose index entry points to a file that
\* is no longer on disk returns None and leaves no entry for the ID, neither
\* in the in-memory index nor in the index file.
C2_SelfHealing ==
    [][/\ \A id \in FileIds :
            (get_raw_file(id) /\ StaleIn(raw_files_index, id)) =>
                /\ last'.ret = None
                /\ Pruned("raw_files", raw_files_index', extra_dir', id)
       /\ \A id \in KnowledgeIds :
            (get_knowledge(id) /\ StaleIn(knowledges_index, id)) =>
                /\ last'.ret = None
                /\ Pruned("knowledges", knowledges_index', extra_dir', id)
       /\ \A id \in KnowledgeIds :
            (get_embedding(id) /\ StaleIn(embeddings_index, id)) =>
                /\ last'.ret = None
                /\ Pruned("embeddings", embeddings_index', extra_dir', id)]_vars

\* a get has found its indexed file missing
C2_Witness ==
    /\ last.op \in {"get_raw_file", "get_knowledge", "get_embedding"}
    /\ last.note = "pruned"
    /\ last.ret = None

\* C3: knowledge round-trip.  Right after store_knowledge(K) has returned,
\* get_knowledge(id) returns an item of K's subtype equal to K in every field.
C3_KnowledgeRoundTrip ==
    last.op = "store_knowledge" =>
        get_knowledge_result(last.id).ret = last.arg

\* C4: raw-file round-trip, last writer wins.  Right after
\* store_raw_file(file_id, content=b, file_extension=e) has returned, whatever
\* came before, get_raw_file(file_id) returns a path whose file holds b.
C4_RawRoundTrip ==
    (last.op = "store_raw_file" /\ last.note = "content") =>
        LET r == get_raw_file_result(last.id)
        IN /\ r.ret.kind = "path"
           /\ r.ret.path.dir = "raw_files"
           /\ r.ret.path.name \in RawNames
           /\ RawRead(r.ret.path.name) = last.arg

\* a store by content has just returned and the directory holds an older file
\* of the same ID under another extension, with other bytes
C4_Witness ==
    /\ last.op = "store_raw_file"
    /\ last.note = "content"
    /\ \E i \in DOMAIN raw_files_dir :
          /\ raw_files_dir[i].name # last.ret.path.name
          /\ stem(raw_files_dir[i].name) = last.id
          /\ raw_files_dir[i].data # last.arg

\* the files of raw_files/ that belong to file_id
FilesOf(file_id) ==
    {n \in RawNames :
        \E x \in {suffix(n)} : n = file_id \o x}

\* C5: one raw file per ID.  After any sequence of store_raw_file calls,
\* raw_files/ holds exactly one file for each stored file_id: the one the
\* most recent store for that ID wrote.
C5_OneFilePerId ==
    \A id \in DOMAIN raw_files_index :
        FilesOf(id) = {raw_files_index[id].path.name}

\* C6: delete removes the index entry.  After delete_raw_file(id),
\* delete_knowledge(id) or delete_embedding(id) has returned, the index has no
\* entry for id, in memory and on disk.
C6_DeleteRemovesEntry ==
    /\ last.op = "delete_raw_file" =>
           Pruned("raw_files", raw_files_index, extra_dir, last.id)
    /\ last.op = "delete_knowledge" =>
           Pruned("knowledges", knowledges_index, extra_dir, last.id)
    /\ last.op = "delete_embedding" =>
           Pruned("embeddings", embeddings_index, extra_dir, last.id)

Indexed(index_type, index_after, extra_after, id, path) ==
    /\ id \in DOMAIN index_after
    /\ index_after[id].path = path
    /\ extra_after[get_index_path(index_type)] = Json(index_after)

\* raw_files/{id}.<ext>
IsRawFileOf(name, id) ==
    /\ Len(name) > Len(id)
    /\ \A i \in 1..Len(id) : name[i] = id[i]
    /\ name[Len(id) + 1] = Dot

\* C7: fallback scan with backfill.  A get for an ID that is not indexed while
\* a data file for it is on disk returns that file (that item) and leaves an
\* entry for the ID in the in-memory index and in the index file.
C7_FallbackBackfill ==
    [][/\ \A id \in FileIds :
            (/\ get_raw_file(id)
             /\ id \notin DOMAIN raw_files_index
             /\ \E n \in RawNames : IsRawFileOf(n, id)) =>
                /\ last'.ret.kind = "path"
                /\ last'.ret.path.dir = "raw_files"
                /\ last'.ret.path.name \in RawNames
                /\ IsRawFileOf(last'.ret.path.name, id)
                /\ Indexed("raw_files", raw_files_index', extra_dir', id,
                           last'.ret.path)
       /\ \A id \in KnowledgeIds :
            (/\ get_knowledge(id)
             /\ id \notin DOMAIN knowledges_index
             /\ json_name(id) \in DOMAIN knowledges_dir
             /\ knowledges_dir[json_name(id)].kind = "json") =>
                /\ last'.ret.kind = "item"
                /\ model_dump(last'.ret.item) = knowledges_dir[json_name(id)].data
                /\ Indexed("knowledges", knowledges_index', extra_dir', id,
                           RelPath("knowledges", json_name(id)))
       /\ \A id \in KnowledgeIds :
            (/\ get_embedding(id)
             /\ id \notin DOMAIN embeddings_index
             /\ json_name(id) \in DOMAIN embeddings_dir
             /\ embeddings_dir[json_name(id)].kind = "json") =>
                /\ last'.ret = DataRet(embeddings_dir[json_name(id)].data)
                /\ Indexed("embeddings", embeddings_index', extra_dir', id,
                           RelPath("embeddings", json_name(id)))]_vars

\* a get has found by scan a file it had no entry for
C7_Witness ==
    /\ last.op \in {"get_raw_file", "get_knowledge", "get_embedding"}
    /\ last.note = "scanned"
    /\ last.ret # None

IndexOf(index_type) ==
    CASE index_type = "raw_files" -> raw_files_index
      [] index_type = "knowledges" -> knowledges_index
      [] index_type = "embeddings" -> embeddings_index

\* the data files of a namespace directory: every file of raw_files/, the
\* *.json files of knowledges/ and embeddings/
DataFiles(index_type) ==
    CASE index_type = "raw_files" -> RawNames
      [] index_type = "knowledges" ->
             {n \in DOMAIN knowledges_dir : suffix(n) = <<Dot, "json">>}
      [] index_type = "embeddings" ->
             {n \in DOMAIN embeddings_dir : suffix(n) = <<Dot, "json">>}

\* index has an entry for the ID of every data file of the directory and no
\* other entry, each entry pointing to a data file of its ID
CoversDirectory(index_type, index) ==
    /\ \A n \in DataFiles(index_type) : stem(n) \in DOMAIN index
    /\ \A id \in DOMAIN index :
          /\ index[id].path.dir = index_type
          /\ index[id].path.name \in DataFiles(index_type)
          /\ stem(index[id].path.name) = id

Unreadable(index_type) ==
    \/ get_index_path(index_type) \notin DOMAIN extra_dir
    \/ extra_dir[get_index_path(index_type)].kind # "json"

\* C8: index recovery on load.  When a LocalStorage is constructed and an
\* index file is absent or does not parse, the index is rebuilt by scan: it
\* has an entry for every ID with a data file in the directory and no other
\* entry, and the index file is written again.
C8_RecoveryOnLoad ==
    [][\A t \in IndexTypes :
          (LocalStorage_init /\ Unreadable(t)) =>
              /\ CoversDirectory(t, IndexOf(t)')
              /\ get_index_path(t) \in DOMAIN extra_dir'
              /\ extra_dir'[get_index_path(t)] = Json(IndexOf(t)')]_vars

\* a LocalStorage has been constructed over data files whose index files were
\* missing or unreadable
C8_Witness ==
    /\ last.op = "__init__"
    /\ last.rebuilt = IndexTypes
    /\ raw_files_index # EmptyMap
    /\ knowledges_index # EmptyMap
    /\ embeddings_index # EmptyMap

\* C9: rebuild_all_indexes is idempotent.  Right after it has returned, with
\* the directories as they are, a second call leaves the three in-memory
\* indexes and the three index files as the first call left them.
C9_RebuildIdempotent ==
    last.op = "rebuild_all_indexes" =>
        /\ \A t \in IndexTypes : rebuilt_index(t) = IndexOf(t)
        /\ save_index(
               save_index(
                   save_index(extra_dir, "raw_files", rebuilt_index("raw_files")),
                   "knowledges", rebuilt_index("knowledges")),
               "embeddings", rebuilt_index("embeddings")) = extra_dir

\* rebuild_all_indexes has returned over a raw_files/ that holds two files of
\* one ID, and over stored knowledge and embeddings
C9_Witness ==
    /\ last.op = "rebuild_all_indexes"
    /\ Len(raw_files_dir) = 2
    /\ raw_files_index # EmptyMap
    /\ knowledges_index # EmptyMap
    /\ embeddings_index # EmptyMap

\* C10: atomic replace.  Every data file and every index file holds complete
\* content at all times, also when a write was cut short: never a truncated
\* or partial one.
C10_AtomicReplace ==
    /\ \A i \in DOMAIN raw_files_dir : raw_files_dir[i].data # Partial
    /\ \A n \in DOMAIN knowledges_dir : knowledges_dir[n] # Partial
    /\ \A n \in DOMAIN embeddings_dir : embeddings_dir[n] # Partial
    /\ \A n \in DOMAIN extra_dir : extra_dir[n] # Partial

\* C11: serialized index mutation.  When two threads run write operations on
\* the knowledges index of one LocalStorage concurrently, then once both have
\* returned the index file on disk equals the in-memory index.
C11_SerializedIndexMutation ==
    (\A t \in Threads : threads[t].pc = "idle") =>
        IndexFileOf("knowledges") = Json(knowledges_index)

\* C12: write ordering and crash recovery.  A store writes the data file
\* before it adds the index entry and rewrites the index file; when the
\* process stops between the two, the next load of the store leaves an index
\* entry for the ID whose data file was written.
C12_CrashRecovery ==
    [][(/\ last.op = "killed"
        /\ last.note = "between"
        /\ LocalStorage_init) =>
           /\ (\E n \in RawNames : IsRawFileOf(n, last.id)) =>
                  last.id \in DOMAIN raw_files_index'
           /\ json_name(last.id) \in DOMAIN knowledges_dir =>
                  last.id \in DOMAIN knowledges_index'
           /\ json_name(last.id) \in DOMAIN embeddings_dir =>
                  last.id \in DOMAIN embeddings_index']_vars

\* C13: disk-write failures propagate.  When a disk write of a store fails,
\* be it the write of the data file or the rewrite of the index file, the
\* store raises: it does not return as if it had succeeded.
C13_WriteFailurePropagates ==
    last.note = "write_failed" => last.ret.kind = "raise"

\* C14: process_knowledge stores the item whatever the download does.  For a
\* Paper with pdf_url set, when the GET fails or the write of the downloaded
\* bytes fails, process_knowledge returns the primary ID without raising and
\* get_knowledge(id) then returns the item.
C14_StoredWhateverTheDownload ==
    (last.op = "process_knowledge" /\ last.arg.item.cls = "Paper"
        /\ last.arg.item.pdf_url # "") =>
        /\ last.ret = IdRet(get_primary_id(last.arg.item))
        /\ get_knowledge_result(last.id).ret.kind = "item"
        /\ model_dump(get_knowledge_result(last.id).ret.item)
               = model_dump(last.arg.item)

\* process_knowledge has returned for a Paper whose download failed, or whose
\* downloaded bytes could not be written
C14_Witness ==
    /\ last.op = "process_knowledge"
    /\ last.note \in {"download_failed", "store_failed"}
    /\ last.gets = 1
    /\ last.ret.kind = "id"

\* the second of two process_knowledge calls in succession on one Paper with
\* pdf_url set has returned
TwoCalls ==
    /\ last.op = "process_knowledge"
    /\ last.prev.op = "process_knowledge"
    /\ last.prev.arg = last.arg
    /\ last.arg.item.cls = "Paper"
    /\ last.arg.item.pdf_url # ""

\* C15 as stated: two process_knowledge calls in succession on the same Paper
\* with pdf_url set issue exactly one GET in total.
C15_ExactlyOneGet ==
    TwoCalls => last.prev.gets + last.gets = 1

\* C15: duplicate suppression.  When the first of two process_knowledge calls
\* in succession on the same Paper downloaded the PDF and stored it, the
\* second call finds the raw file and issues no GET: one GET in total.
C15_DuplicateSuppression ==
    (TwoCalls /\ last.prev.note = "downloaded") =>
        /\ last.note = "exists"
        /\ last.prev.gets + last.gets = 1

\* a second call has skipped the download the first call made
C15_Witness ==
    /\ TwoCalls
    /\ last.prev.note = "downloaded"
    /\ last.note = "exists"
    /\ Len(requests) = 1

\* C16: every GET process_knowledge issues carries the timeout of the storage
\* configuration, config.download_timeout.
C16_ConfiguredTimeout ==
    \A i \in DOMAIN requests : requests[i].timeout = download_timeout

\* neither or both of file_path and content are given
InvalidInput(file_path, content) ==
    \/ file_path # None /\ content # None
    \/ file_path = None /\ content = None

\* C17: store_raw_file input validation.  A call that gives both file_path
\* and content, or neither, raises an error, creates no file in raw_files/
\* and changes no index entry, in memory or in the index file.
C17_InputValidation ==
    [][\A id \in FileIds, f \in SourceFiles \cup {None},
          c \in FileContents \cup {None}, e \in FileExtensions :
            (store_raw_file(id, f, c, e) /\ InvalidInput(f, c)) =>
                /\ last'.ret = Raise("ValueError")
                /\ UNCHANGED <<raw_files_dir, raw_files_index, extra_dir>>]_vars

\* a call has been rejected on a store that holds a raw file
C17_Witness ==
    /\ last.op = "store_raw_file"
    /\ last.ret = Raise("ValueError")
    /\ raw_files_dir # <<>>
    /\ raw_files_index # EmptyMap

Min(a, b) == IF a <= b THEN a ELSE b

\* C18: LLM retry policy.  With retry_attempts = M and a provider that raises
\* on its first N calls, _call_with_retry returns the response exactly when
\* N <= M, after exactly min(N, M) sleeps of retry_delay seconds each and at
\* most M + 1 provider calls; when N > M it returns None, without raising and
\* without a sleep after the last failed attempt.
C18_RetryPolicy ==
    (llm.kind = "retry" /\ llm.pc = "returned") =>
        /\ (llm.ret # None) <=> (llm.fails <= llm.retry_attempts)
        /\ Len(llm.sleeps) = Min(llm.fails, llm.retry_attempts)
        /\ \A i \in DOMAIN llm.sleeps : llm.sleeps[i] = llm.retry_delay
        /\ llm.calls <= llm.retry_attempts + 1
        /\ llm.calls = Min(llm.fails, llm.retry_attempts) + 1

\* a call has returned the response after failures and sleeps
C18_Witness ==
    /\ llm.kind = "retry"
    /\ llm.pc = "returned"
    /\ llm.ret # None
    /\ llm.fails = llm.retry_attempts
    /\ Len(llm.sleeps) >= 2

\* a call has returned None with every attempt failed
C18_WitnessExhausted ==
    /\ llm.kind = "retry"
    /\ llm.pc = "returned"
    /\ llm.ret = None
    /\ llm.fails > llm.retry_attempts
    /\ llm.retry_attempts >= 1

\* C19: temporary_config restoration.  After a temporary_config scope has
\* ended, by normal exit, by an exception inside the scope, or because
\* applying the overrides failed, every field of block.config has the value
\* it had before the scope was entered.
C19_ConfigRestored ==
    (llm.kind = "config" /\ llm.pc = "exited") => llm.config = llm.before

\* the JSON objects and arrays embedded in a text
Embedded(text) ==
    {[kind |-> "json", tokens |-> SubSeq(text, i, value_end(text, i))] :
        i \in {j \in 1..Len(text) : value_end(text, j) # 0}}

\* C20: generate_structured_output never raises; it returns null when the
\* call failed; it returns the whole reply when the whole reply parses as
\* JSON; otherwise, when the reply embeds a JSON object or array, it returns
\* an embedded one that parses (the first, says the claim: the formula asks
\* for less, any of them), and null when the reply embeds none.
C20_StructuredOutput ==
    (llm.kind = "parse" /\ llm.pc = "returned") =>
        /\ llm.ret.kind # "raise"
        /\ llm.reply.kind = "failed" => llm.ret = None
        /\ llm.reply.kind = "content" =>
             IF json_loads(llm.reply.text).exc = "none"
             THEN llm.ret = json_loads(llm.reply.text).value
             ELSE IF Embedded(llm.reply.text) # {}
             THEN llm.ret \in Embedded(llm.reply.text)
             ELSE llm.ret = None

\* the value the variant has for an override: what the call gave last for
\* that key
Given(overrides, key) ==
    LET at == {n \in 1..Len(overrides) : overrides[n].key = key}
    IN overrides[SetMax(at)].value

UnknownTypes(config_dict) ==
    {c \in DOMAIN config_dict :
        /\ config_dict[c].kind = "dict"
        /\ config_dict[c].type \notin CONFIG_REGISTRY[c] \cup {"None"}}

Registered(config_dict) ==
    {c \in DOMAIN config_dict :
        /\ config_dict[c].kind = "dict"
        /\ config_dict[c].type \in CONFIG_REGISTRY[c]}

RECURSIVE HasApiKey(_)
\* whether a dict holds an api_key item, at any depth
HasApiKey(value) ==
    /\ value.kind = "dict"
    /\ \/ "api_key" \in DOMAIN value.items
       \/ \E k \in DOMAIN value.items : HasApiKey(value.items[k])

\* C23: the dict save_to_yaml writes holds no api_key, at any depth.
C23_NoApiKeyExported ==
    (llm.kind = "export" /\ llm.pc = "returned") => ~HasApiKey(llm.ret)

\* the LLM path of the last call on the flow failed: there is no block, or
\* generate_text returned None or raised
LLMFailed ==
    \/ llm.llm_block = "None"
    \/ llm.outcome = None
    \/ llm.outcome.kind = "raise"

\* C24: no call on a flow raises; when the LLM block could not be created,
\* returned null or raised, _call_llm returns null and execute returns a
\* failure result.
C24_FlowDegrades ==
    (llm.kind = "flow" /\ llm.op # "none") =>
        /\ llm.ret.kind # "raise"
        /\ (LLMFailed /\ llm.op = "_call_llm") => llm.ret = None
        /\ (LLMFailed /\ llm.op = "execute") =>
             (llm.ret.kind = "result" /\ llm.ret.error)

\* execute was called on a flow with a block whose generate_text raised
C24_Witness ==
    /\ llm.kind = "flow"
    /\ llm.op = "execute"
    /\ llm.llm_block = "LLMBlock"
    /\ llm.outcome.kind = "raise"
    /\ llm.ret.kind = "result"

\* C25: running get_all_knowledges() to its end raises nothing, whatever the
\* knowledges index holds, and leaves no entry whose file is missing.
C25_IterationCompletes ==
    [][get_all_knowledges =>
          /\ last'.ret.exc = "none"
          /\ \A id \in DOMAIN knowledges_index' :
               path_exists(knowledges_index'[id].path)]_vars

\* the index file of an index type is the same before and after the step
IndexFileUnchanged(index_type) ==
    LET p == get_index_path(index_type)
    IN /\ (p \in DOMAIN extra_dir) = (p \in DOMAIN extra_dir')
       /\ p \in DOMAIN extra_dir => extra_dir'[p] = extra_dir[p]

\* C26: store_extra and delete_extra, for every key, leave the three
\* in-memory indexes and the three index files as they were.
C26_ExtraLeavesIndexes ==
    [][(\/ \E key \in ExtraKeys, data \in ExtraData : store_extra(key, data)
        \/ \E key \in ExtraKeys : delete_extra(key)) =>
          /\ UNCHANGED <<raw_files_index, knowledges_index, embeddings_index>>
          /\ \A t \in IndexTypes : IndexFileUnchanged(t)]_vars

\* C28: after stores and deletes made through the API only,
\* rebuild_all_indexes() leaves the three indexes as they were: the same IDs,
\* and for every ID the same path and the same extension.
C28_RebuildEqualsIncremental ==
    [][rebuild_all_indexes =>
          UNCHANGED <<raw_files_index, knowledges_index, embeddings_index>>]_vars

\* the files on disk that store_raw_file wrote for a file ID
OwnFiles(file_id) ==
    {n \in RawNames :
        \E e \in FileExtensions : n = file_id \o normalize_extension(e)}

\* C27: get_raw_file(a) returns only a file that was stored under the ID a,
\* and when a has no file of its own it returns null and adds no index entry.
C27_RawIdsIsolated ==
    [][\A file_id \in DottedFileIds :
          get_raw_file(file_id) =>
              /\ last'.ret.kind = "path" => last'.ret.path.name \in OwnFiles(file_id)
              /\ OwnFiles(file_id) = {} =>
                   /\ last'.ret = None
                   /\ DOMAIN raw_files_index' \subseteq DOMAIN raw_files_index]_vars

\* C29: with a provider that raises on its first k calls, k <= retry_attempts,
\* EmbeddingBlock._call_with_retry returns the response after exactly k + 1
\* provider invocations and k sleeps; with a provider that raises on more
\* calls than that it invokes the provider retry_attempts + 1 times and
\* returns null.
C29_EmbeddingRetry ==
    (llm.kind = "embedding_retry" /\ llm.pc = "returned") =>
        IF llm.fails <= llm.retry_attempts
        THEN /\ llm.ret # None
             /\ llm.calls = llm.fails + 1
             /\ Len(llm.sleeps) = llm.fails
        ELSE /\ llm.ret = None
             /\ llm.calls = llm.retry_attempts + 1

\* C30: after a temporary_config scope on an LLMBlock that overrides api_key
\* or model has ended, the four API-key environment variables have the values
\* they had immediately before the scope was entered.
C30_EnvironRestored ==
    (llm.kind = "environ" /\ llm.pc = "exited") =>
        \A v \in EnvVars : llm.environ[v] = llm.environ_before[v]

====
